---- MODULE Spec2Model ----
(***************************************************************************)
(* Model of the netlist canonicalizer post_process_netlist of src/src/syn.py *)
(* (lines 251-425).  Texts are TLA+ strings; every regular expression and   *)
(* every str method of the source is an operator that computes what the     *)
(* Python call computes, character by character.                            *)
(***************************************************************************)
EXTENDS Integers, Sequences, FiniteSets, TLC

(***************************************************************************)
(* Characters and the str methods the source uses.                          *)
(***************************************************************************)

\* s[a-1:b] of Python for 1-based a and b: the slice is clamped to the string
Sub(s, a, b) ==
    LET lo == IF a < 1 THEN 1 ELSE a
        hi == IF b > Len(s) THEN Len(s) ELSE b
    IN  IF lo > hi THEN "" ELSE SubSeq(s, lo, hi)

\* the i-th character of s ("" outside 1..Len(s))
Ch(s, i) == Sub(s, i, i)

\* s[i-1:] of Python for a 1-based i
From(s, i) == Sub(s, i, Len(s))

\* \s of the re module and the characters str.strip() removes
WS == {" ", "\t", "\n", "\r", "\f"}

\* the line boundaries of str.splitlines()
LineBreaks == {"\n", "\r", "\f"}

\* \d
Digits == {"0", "1", "2", "3", "4", "5", "6", "7", "8", "9"}

LowerCase == {"a", "b", "c", "d", "e", "f", "g", "h", "i", "j", "k", "l", "m",
              "n", "o", "p", "q", "r", "s", "t", "u", "v", "w", "x", "y", "z"}

UpperCase == {"A", "B", "C", "D", "E", "F", "G", "H", "I", "J", "K", "L", "M",
              "N", "O", "P", "Q", "R", "S", "T", "U", "V", "W", "X", "Y", "Z"}

\* \w
WordCh == LowerCase \cup UpperCase \cup Digits \cup {"_"}

\* [0-9a-fA-F_xXzZ?] of the hex literal pattern
HexValCh == Digits \cup {"a", "b", "c", "d", "e", "f", "A", "B", "C", "D", "E", "F",
                         "_", "x", "X", "z", "Z", "?"}

\* str.lower() of one character
LowerOf(c) ==
    CASE c = "A" -> "a" [] c = "B" -> "b" [] c = "C" -> "c" [] c = "D" -> "d"
      [] c = "E" -> "e" [] c = "F" -> "f" [] c = "G" -> "g" [] c = "H" -> "h"
      [] c = "I" -> "i" [] c = "J" -> "j" [] c = "K" -> "k" [] c = "L" -> "l"
      [] c = "M" -> "m" [] c = "N" -> "n" [] c = "O" -> "o" [] c = "P" -> "p"
      [] c = "Q" -> "q" [] c = "R" -> "r" [] c = "S" -> "s" [] c = "T" -> "t"
      [] c = "U" -> "u" [] c = "V" -> "v" [] c = "W" -> "w" [] c = "X" -> "x"
      [] c = "Y" -> "y" [] c = "Z" -> "z" [] OTHER -> c

\* str.lower(), by halves
RECURSIVE Lower(_)
Lower(s) ==
    IF Len(s) <= 1 THEN LowerOf(s)
    ELSE Lower(Sub(s, 1, Len(s) \div 2)) \o Lower(From(s, Len(s) \div 2 + 1))

\* the end (exclusive) of the longest run of characters of class C starting at i
RunEnd(s, i, C) ==
    CHOOSE k \in i..(Len(s) + 1) :
        /\ Ch(s, k) \notin C
        /\ \A m \in i..(k - 1) : Ch(s, m) \in C

\* the end (exclusive) of the longest run of characters outside C starting at i
RunEndNot(s, i, C) ==
    CHOOSE k \in i..(Len(s) + 1) :
        /\ (k > Len(s) \/ Ch(s, k) \in C)
        /\ \A m \in i..(k - 1) : Ch(s, m) \notin C

\* the start of the longest run of characters of class C ending at i (inclusive)
RunStart(s, i, C) ==
    CHOOSE k \in 1..(i + 1) :
        /\ Ch(s, k - 1) \notin C
        /\ \A m \in k..i : Ch(s, m) \in C

\* str.strip()
Strip(s) ==
    LET a == RunEnd(s, 1, WS)
        b == RunStart(s, Len(s), WS) - 1
    IN  IF a > b THEN "" ELSE Sub(s, a, b)

\* str.startswith(p)
StartsWith(s, p) == Len(s) >= Len(p) /\ Sub(s, 1, Len(p)) = p

\* p occurs in s at k
OccursAt(s, p, k) == k >= 1 /\ k + Len(p) - 1 <= Len(s) /\ Sub(s, k, k + Len(p) - 1) = p

\* the least k >= i with s[k..] starting with p, or 0 (str.find, 1-based)
FindFrom(s, p, i) ==
    IF \E k \in i..Len(s) : OccursAt(s, p, k)
    THEN CHOOSE k \in i..Len(s) :
             OccursAt(s, p, k) /\ \A m \in i..(k - 1) : ~OccursAt(s, p, m)
    ELSE 0

\* the greatest k <= i with s[k] = c, or 0 (str.rfind of one character)
FindLastCh(s, c, i) ==
    IF \E k \in 1..i : Ch(s, k) = c
    THEN CHOOSE k \in 1..i : Ch(s, k) = c /\ \A m \in (k + 1)..i : Ch(s, m) # c
    ELSE 0

\* str.count(c) of one character
Count(s, c) == Cardinality({k \in 1..Len(s) : Ch(s, k) = c})

\* sep.join(seq)
RECURSIVE Join(_, _)
Join(seq, sep) ==
    IF Len(seq) = 0 THEN ""
    ELSE IF Len(seq) = 1 THEN seq[1]
    ELSE seq[1] \o sep \o Join(Tail(seq), sep)

\* str.split(sep) of a one-character separator: always at least one field
RECURSIVE Split(_, _)
Split(s, sep) ==
    LET k == FindFrom(s, sep, 1)
    IN  IF k = 0 THEN <<s>>
        ELSE <<Sub(s, 1, k - 1)>> \o Split(From(s, k + 1), sep)

\* the first line boundary of s at or after i, or 0
NextBreak(s, i) ==
    IF \E k \in i..Len(s) : Ch(s, k) \in LineBreaks
    THEN CHOOSE k \in i..Len(s) :
             Ch(s, k) \in LineBreaks /\ \A m \in i..(k - 1) : Ch(s, m) \notin LineBreaks
    ELSE 0

\* str.splitlines(): breaks at \n, \r, \r\n and \f; no empty last line
RECURSIVE SplitLinesFrom(_, _)
SplitLinesFrom(s, a) ==
    LET k == NextBreak(s, a)
        n == IF Ch(s, k) = "\r" /\ Ch(s, k + 1) = "\n" THEN k + 2 ELSE k + 1
    IN  IF a > Len(s) THEN <<>>
        ELSE IF k = 0 THEN <<From(s, a)>>
        ELSE <<Sub(s, a, k - 1)>> \o SplitLinesFrom(s, n)

SplitLines(s) == SplitLinesFrom(s, 1)

\* re.sub(r"\s+", " ", s): every whitespace run becomes one space
RECURSIVE CollapseWS(_)
CollapseWS(s) ==
    LET k == RunEndNot(s, 1, WS)
    IN  IF k > Len(s) THEN s
        ELSE Sub(s, 1, k - 1) \o " " \o CollapseWS(From(s, RunEnd(s, k, WS)))

(***************************************************************************)
(* Comment Stripper: syn.py 259-261.                                        *)
(***************************************************************************)

\* re.sub(r"/\*.*?\*/", "", text, flags=re.S): at each "/*" that a later "*/"
\* closes, drop up to the first such "*/"; scanning resumes after it.  When the
\* first "/*" has no "*/" after it, no later one has
RECURSIVE StripBlockFrom(_, _)
StripBlockFrom(s, i) ==
    LET open == FindFrom(s, "/*", i)
        close == IF open = 0 THEN 0 ELSE FindFrom(s, "*/", open + 2)
    IN  IF close = 0 THEN From(s, i)
        ELSE Sub(s, i, open - 1) \o StripBlockFrom(s, close + 2)

StripBlockComments(s) == StripBlockFrom(s, 1)

\* re.sub(r"//.*", "", text): "." stops at "\n" only
RECURSIVE StripLineFrom(_, _)
StripLineFrom(s, i) ==
    LET open == FindFrom(s, "//", i)
        nl == IF open = 0 THEN 0 ELSE FindFrom(s, "\n", open)
    IN  IF open = 0 THEN From(s, i)
        ELSE IF nl = 0 THEN Sub(s, i, open - 1)
        ELSE Sub(s, i, open - 1) \o StripLineFrom(s, nl)

StripLineComments(s) == StripLineFrom(s, 1)

StripComments(s) == StripLineComments(StripBlockComments(s))

(***************************************************************************)
(* Literal Normalizer: syn.py 264-293.                                      *)
(***************************************************************************)

\* format(int(c, 16), "04b") for a hex digit c (already lowered)
HexDigitBits(c) ==
    CASE c = "0" -> "0000" [] c = "1" -> "0001" [] c = "2" -> "0010" [] c = "3" -> "0011"
      [] c = "4" -> "0100" [] c = "5" -> "0101" [] c = "6" -> "0110" [] c = "7" -> "0111"
      [] c = "8" -> "1000" [] c = "9" -> "1001" [] c = "a" -> "1010" [] c = "b" -> "1011"
      [] c = "c" -> "1100" [] c = "d" -> "1101" [] c = "e" -> "1110" [] c = "f" -> "1111"

\* str.replace("_", ""), by halves
RECURSIVE DropUnderscores(_)
DropUnderscores(s) ==
    IF Len(s) <= 1 THEN (IF s = "_" THEN "" ELSE s)
    ELSE DropUnderscores(Sub(s, 1, Len(s) \div 2)) \o DropUnderscores(From(s, Len(s) \div 2 + 1))

\* the branches of lines 268-277 for one character
CharBits(ch) ==
    LET c == LowerOf(ch)
    IN  IF c \in Digits \cup {"a", "b", "c", "d", "e", "f"} THEN HexDigitBits(c)
        ELSE IF c \in {"x", "?"} THEN "xxxx"
        ELSE IF c = "z" THEN "zzzz"
        ELSE "0000"

\* the loop of lines 267-278, by halves
RECURSIVE ExpandHex(_)
ExpandHex(s) ==
    IF s = "" THEN ""
    ELSE IF Len(s) = 1 THEN CharBits(s)
    ELSE ExpandHex(Sub(s, 1, Len(s) \div 2)) \o ExpandHex(From(s, Len(s) \div 2 + 1))

hex_to_bin_str(val) == ExpandHex(Strip(DropUnderscores(val)))

DigitVal(c) ==
    CASE c = "0" -> 0 [] c = "1" -> 1 [] c = "2" -> 2 [] c = "3" -> 3 [] c = "4" -> 4
      [] c = "5" -> 5 [] c = "6" -> 6 [] c = "7" -> 7 [] c = "8" -> 8 [] c = "9" -> 9

DigitOf(n) ==
    CASE n = 0 -> "0" [] n = 1 -> "1" [] n = 2 -> "2" [] n = 3 -> "3" [] n = 4 -> "4"
      [] n = 5 -> "5" [] n = 6 -> "6" [] n = 7 -> "7" [] n = 8 -> "8" [] n = 9 -> "9"

\* int(s) of a decimal digit string
RECURSIVE ParseInt(_)
ParseInt(s) ==
    IF s = "" THEN 0
    ELSE ParseInt(Sub(s, 1, Len(s) - 1)) * 10 + DigitVal(Ch(s, Len(s)))

\* str(n) for n >= 0
RECURSIVE FormatInt(_)
FormatInt(n) == IF n < 10 THEN DigitOf(n) ELSE FormatInt(n \div 10) \o DigitOf(n % 10)

\* "0" * n, by halves
RECURSIVE Zeros(_)
Zeros(n) ==
    IF n <= 0 THEN "" ELSE IF n = 1 THEN "0" ELSE Zeros(n \div 2) \o Zeros(n - n \div 2)

\* b[-w:] of Python: the last w characters, and for w = 0 the slice b[0:], all of b
LastChars(b, w) == IF w = 0 THEN b ELSE Sub(b, Len(b) - w + 1, Len(b))

\* the width branch of _hex_repl (the pattern's width group always takes part)
FitWidth(b, w) ==
    IF Len(b) < w THEN Zeros(w - Len(b)) \o b
    ELSE IF Len(b) > w THEN LastChars(b, w)
    ELSE b

hex_repl(width, val) ==
    FormatInt(ParseInt(width)) \o "'b" \o FitWidth(hex_to_bin_str(val), ParseInt(width))

\* A match of (?:(?P<width>\d+)\s*)'\s*[hH]\s*(?P<val>[0-9a-fA-F_xXzZ?]+) starting
\* at i: [ok, width, val, end]; every quantifier is greedy and none can give back
HexMatchAt(s, i) ==
    LET d == RunEnd(s, i, Digits)
        q == RunEnd(s, d, WS)
        h == RunEnd(s, q + 1, WS)
        v == RunEnd(s, h + 1, WS)
        e == RunEnd(s, v, HexValCh)
    IN  IF d > i /\ Ch(s, q) = "'" /\ Ch(s, h) \in {"h", "H"} /\ e > v
        THEN [ok |-> TRUE, width |-> Sub(s, i, d - 1), val |-> Sub(s, v, e - 1), end |-> e]
        ELSE [ok |-> FALSE, width |-> "", val |-> "", end |-> i]

HexStartsAt(s, k) == Ch(s, k) \in Digits /\ HexMatchAt(s, k).ok

\* re.sub(pattern, _hex_repl, text): the leftmost match from i on is replaced
RECURSIVE ConvertHexFrom(_, _)
ConvertHexFrom(s, i) ==
    IF \E k \in i..Len(s) : HexStartsAt(s, k)
    THEN LET k == CHOOSE k \in i..Len(s) :
                      HexStartsAt(s, k) /\ \A m \in i..(k - 1) : ~HexStartsAt(s, m)
             m == HexMatchAt(s, k)
         IN  Sub(s, i, k - 1) \o hex_repl(m.width, m.val) \o ConvertHexFrom(s, m.end)
    ELSE From(s, i)

ConvertHex(s) == ConvertHexFrom(s, 1)

\* the largest string index of a 64-bit build, sys.maxsize, in decimal
MaxSizeDigits == "9223372036854775807"

\* int(width) reads past leading zeros
SignificantDigits(width) == From(width, RunEnd(width, 1, {"0"}))

\* a > b for decimal strings of one length
LaterDigits(a, b) ==
    \E k \in 1..Len(a) :
        /\ DigitVal(Ch(a, k)) > DigitVal(Ch(b, k))
        /\ \A m \in 1..(k - 1) : Ch(a, m) = Ch(b, m)

\* b.rjust(w, "0") raises OverflowError: w does not fit a string index
Unindexable(width) ==
    LET d == SignificantDigits(width)
    IN  \/ Len(d) > Len(MaxSizeDigits)
        \/ Len(d) = Len(MaxSizeDigits) /\ LaterDigits(d, MaxSizeDigits)

\* some literal that re.sub matches from i on makes _hex_repl raise
RECURSIVE HexRaisesFrom(_, _)
HexRaisesFrom(s, i) ==
    IF \E k \in i..Len(s) : HexStartsAt(s, k)
    THEN LET k == CHOOSE k \in i..Len(s) :
                      HexStartsAt(s, k) /\ \A m \in i..(k - 1) : ~HexStartsAt(s, m)
             m == HexMatchAt(s, k)
         IN  Unindexable(m.width) \/ HexRaisesFrom(s, m.end)
    ELSE FALSE

(***************************************************************************)
(* Identifier Cleaners: syn.py 300-327.                                     *)
(***************************************************************************)

clean_cell_ident(token) ==
    LET t0 == Strip(token)
        t1 == IF StartsWith(t0, "\\") THEN Strip(From(t0, 2)) ELSE t0
    IN  IF StartsWith(t1, "$") THEN Strip(From(t1, 2)) ELSE t1

\* a match of \s+ followed by c starts at k
WSBeforeAt(s, c, k) == Ch(s, k) \in WS /\ Ch(s, RunEnd(s, k, WS)) = c

\* re.sub(r"\s+\[", "[", t) and re.sub(r"\s+\]", "]", t): a whitespace run
\* right before c goes
RECURSIVE DropWSBefore(_, _)
DropWSBefore(s, c) ==
    IF \E k \in 1..Len(s) : WSBeforeAt(s, c, k)
    THEN LET k == CHOOSE k \in 1..Len(s) :
                      WSBeforeAt(s, c, k) /\ \A m \in 1..(k - 1) : ~WSBeforeAt(s, c, m)
         IN  Sub(s, 1, k - 1) \o c \o DropWSBefore(From(s, RunEnd(s, k, WS) + 1), c)
    ELSE s

\* a match of c followed by \s+ starts at k
WSAfterAt(s, c, k) == Ch(s, k) = c /\ Ch(s, k + 1) \in WS

\* re.sub(r"\[\s+", "[", t): a whitespace run right after c goes
RECURSIVE DropWSAfter(_, _)
DropWSAfter(s, c) ==
    IF \E k \in 1..Len(s) : WSAfterAt(s, c, k)
    THEN LET k == CHOOSE k \in 1..Len(s) :
                      WSAfterAt(s, c, k) /\ \A m \in 1..(k - 1) : ~WSAfterAt(s, c, m)
         IN  Sub(s, 1, k) \o DropWSAfter(From(s, RunEnd(s, k + 1, WS)), c)
    ELSE s

\* a match of \]\s+\[ starts at k
IndexGapAt(s, k) == Ch(s, k) = "]" /\ Ch(s, k + 1) \in WS /\ Ch(s, RunEnd(s, k + 1, WS)) = "["

\* re.sub(r"\]\s+\[", "][", t)
RECURSIVE MergeIndices(_)
MergeIndices(s) ==
    IF \E k \in 1..Len(s) : IndexGapAt(s, k)
    THEN LET k == CHOOSE k \in 1..Len(s) :
                      IndexGapAt(s, k) /\ \A m \in 1..(k - 1) : ~IndexGapAt(s, m)
         IN  Sub(s, 1, k - 1) \o "][" \o MergeIndices(From(s, RunEnd(s, k + 1, WS) + 1))
    ELSE s

clean_signal(token) ==
    DropWSBefore(DropWSAfter(MergeIndices(DropWSBefore(Strip(token), "[")), "["), "]")

(***************************************************************************)
(* Statement Segmenter: syn.py 329-341.                                     *)
(***************************************************************************)

ParenBalance(line) == Count(line, "(") - Count(line, ")")

\* the loop of collect_instance stopping before a blank line or a line that
\* starts with a declaration keyword
RECURSIVE CollectUntilBlank(_, _, _, _)
CollectUntilBlank(all_lines, j, buf, balance) ==
    IF /\ j <= Len(all_lines)
       /\ balance > 0
       /\ Strip(all_lines[j]) # ""
       /\ \A kw \in {"module", "input", "output", "wire", "endmodule"} :
              ~StartsWith(Strip(all_lines[j]), kw)
    THEN LET nl == Strip(all_lines[j])
         IN  CollectUntilBlank(all_lines, j + 1, Append(buf, nl), balance + ParenBalance(nl))
    ELSE [buf |-> buf, balance |-> balance, next |-> j]

\* the loop of collect_instance taken for a test made once: at most one
\* continuation line is accumulated
CollectOnce(all_lines, j, buf, balance) ==
    IF j <= Len(all_lines) /\ balance > 0
    THEN LET nl == Strip(all_lines[j])
         IN  [buf |-> Append(buf, nl), balance |-> balance + ParenBalance(nl), next |-> j + 1]
    ELSE [buf |-> buf, balance |-> balance, next |-> j]

\* the while loop of collect_instance from continuation index j on: buf, the
\* running balance, and the index the loop stops at
RECURSIVE CollectLoop(_, _, _, _)
CollectLoop(all_lines, j, buf, balance) ==
    IF j <= Len(all_lines) /\ balance > 0
    THEN LET nl == Strip(all_lines[j])
         IN  CollectLoop(all_lines, j + 1, Append(buf, nl), balance + ParenBalance(nl))
    ELSE [buf |-> buf, balance |-> balance, next |-> j]

\* collect_instance returning the index after the opener in place of j
CollectNoAdvance(all_lines, start) ==
    LET line == Strip(all_lines[start])
        r == CollectLoop(all_lines, start + 1, <<line>>, ParenBalance(line))
    IN  [full |-> Join(r.buf, " "), next |-> start + 1, buf |-> r.buf, balance |-> r.balance]

\* collect_instance(all_lines, start_index), indices 1-based: the joined statement
\* and the index after it, with the lines accumulated and the final balance
collect_instance(all_lines, start) ==
    LET line == Strip(all_lines[start])
        r == CollectLoop(all_lines, start + 1, <<line>>, ParenBalance(line))
    IN  [full |-> Join(r.buf, " "), next |-> r.next, buf |-> r.buf, balance |-> r.balance]

(***************************************************************************)
(* Gate Formatter and Flip-Flop Formatter: syn.py 343-374.                  *)
(***************************************************************************)

\* A match of \.(\w+)\s*\(\s*([^\)]+)\s*\) whose "." is at i.  \w+ and the \s*
\* before "(" cannot give back; [^\)]+ runs to the next ")", and when nothing is
\* left for it the \s* after "(" gives its whitespace back to it
PortMatchAt(s, i) ==
    LET w == RunEnd(s, i + 1, WordCh)
        p == RunEnd(s, w, WS)
        a == RunEnd(s, p + 1, WS)
        c == FindFrom(s, ")", p + 1)
        g == IF a < c THEN a ELSE c - 1
    IN  IF Ch(s, i) = "." /\ w > i + 1 /\ Ch(s, p) = "(" /\ c # 0 /\ c > p + 1
        THEN [ok |-> TRUE, pin |-> Sub(s, i + 1, w - 1), net |-> Sub(s, g, c - 1), end |-> c + 1]
        ELSE [ok |-> FALSE, pin |-> "", net |-> "", end |-> i]

PortStartsAt(s, k) == Ch(s, k) = "." /\ PortMatchAt(s, k).ok

\* re.findall(pattern, full_text): the (pin, net) pairs, left to right
RECURSIVE FindPorts(_, _)
FindPorts(s, i) ==
    IF \E k \in i..Len(s) : PortStartsAt(s, k)
    THEN LET k == CHOOSE k \in i..Len(s) :
                      PortStartsAt(s, k) /\ \A m \in i..(k - 1) : ~PortStartsAt(s, m)
             m == PortMatchAt(s, k)
         IN  <<[pin |-> m.pin, net |-> m.net]>> \o FindPorts(s, m.end)
    ELSE <<>>

\* dict(pairs): pin in ports
HasPin(pairs, pin) == \E k \in 1..Len(pairs) : pairs[k].pin = pin

\* dict(pairs)[pin]: the last pair of a pin wins
PinNet(pairs, pin) ==
    LET k == CHOOSE k \in 1..Len(pairs) :
                 pairs[k].pin = pin /\ \A m \in (k + 1)..Len(pairs) : pairs[m].pin # pin
    IN  pairs[k].net

\* ports.get(pin, "")
PinNetOrEmpty(pairs, pin) == IF HasPin(pairs, pin) THEN PinNet(pairs, pin) ELSE ""

\* the fields as split, neither stripped nor cleaned
KeepFields(fields) == fields

\* [clean_signal(p.strip()) for p in raw_list.split(',')]
CleanAll(fields) == [k \in 1..Len(fields) |-> clean_signal(Strip(fields[k]))]

\* The positional branch and the fallback of format_primitive: re.search of
\* \((.*)\) finds the first "(" and runs to the last ")" after it
FormatPositional(gtype, inst, full_text) ==
    LET open == FindFrom(full_text, "(", 1)
        close == FindLastCh(full_text, ")", Len(full_text))
    IN  IF open # 0 /\ close > open
        THEN "    " \o gtype \o " " \o inst \o "("
             \o Join(CleanAll(Split(Sub(full_text, open + 1, close - 1), ",")), ", ") \o ");"
        ELSE Strip(CollapseWS(full_text))

\* format_primitive with the nets of the named pins in the order they are listed
FormatPrimitiveAsListed(gtype, inst, full_text) ==
    LET ports == FindPorts(full_text, 1)
    IN  IF Len(ports) > 0
        THEN "    " \o gtype \o " " \o inst \o "("
             \o Join([k \in 1..Len(ports) |-> clean_signal(ports[k].net)], ", ") \o ");"
        ELSE FormatPositional(gtype, inst, full_text)

\* format_primitive with every gate taken for a one-input gate
FormatPrimitiveTwoPin(gtype, inst, full_text) ==
    LET ports == FindPorts(full_text, 1)
        out == clean_signal(PinNetOrEmpty(ports, "Y"))
        ain == clean_signal(PinNetOrEmpty(ports, "A"))
    IN  IF Len(ports) > 0
        THEN "    " \o gtype \o " " \o inst \o "(" \o out \o ", " \o ain \o ");"
        ELSE FormatPositional(gtype, inst, full_text)

format_primitive(gtype, inst, full_text) ==
    LET ports == FindPorts(full_text, 1)
        out == clean_signal(PinNetOrEmpty(ports, "Y"))
        ain == clean_signal(PinNetOrEmpty(ports, "A"))
    IN  IF Len(ports) > 0
        THEN IF gtype \in {"not", "buf"}
             THEN "    " \o gtype \o " " \o inst \o "(" \o out \o ", " \o ain \o ");"
             ELSE IF HasPin(ports, "B")
             THEN "    " \o gtype \o " " \o inst \o "(" \o out \o ", " \o ain \o ", "
                  \o clean_signal(PinNet(ports, "B")) \o ");"
             ELSE "    " \o gtype \o " " \o inst \o "(" \o out \o ", " \o ain \o ");"
        ELSE FormatPositional(gtype, inst, full_text)

\* ordered = ["RN", "SN", "CK", "D", "Q"]
OrderedPins == <<"RN", "SN", "CK", "D", "Q">>

\* the parts list of format_dff with every port found, in the order found
DffPartsAsFound(ports, k) ==
    [j \in 1..Len(ports) |-> "." \o ports[j].pin \o "(" \o clean_signal(ports[j].net) \o ")"]

\* the parts list of format_dff, built over ordered[k..]
RECURSIVE DffParts(_, _)
DffParts(ports, k) ==
    IF k > Len(OrderedPins) THEN <<>>
    ELSE (IF HasPin(ports, OrderedPins[k])
          THEN <<"." \o OrderedPins[k] \o "(" \o clean_signal(PinNet(ports, OrderedPins[k])) \o ")">>
          ELSE <<>>) \o DffParts(ports, k + 1)

\* format_dff with the closing ";" left out
FormatDffOpen(inst, full_text) ==
    "    dff " \o inst \o "(" \o Join(DffParts(FindPorts(full_text, 1), 1), ", ") \o ")"

format_dff(inst, full_text) ==
    "    dff " \o inst \o "(" \o Join(DffParts(FindPorts(full_text, 1), 1), ", ") \o ");"

(***************************************************************************)
(* Canonicalizer, the line dispatch: syn.py 376-415.                        *)
(***************************************************************************)

primitive_types == {"and", "or", "nand", "nor", "xor", "xnor", "not", "buf"}

DeclKeywords == {"module", "input", "output", "wire", "endmodule"}

\* re.match(r"^\s*\\?\$?(\w+)\s+([^\s(]+)\s*\(", raw): no quantifier can give back
InstMatch(raw) ==
    LET a == RunEnd(raw, 1, WS)
        b == IF Ch(raw, a) = "\\" THEN a + 1 ELSE a
        c == IF Ch(raw, b) = "$" THEN b + 1 ELSE b
        w == RunEnd(raw, c, WordCh)
        t == RunEnd(raw, w, WS)
        e == RunEndNot(raw, t, WS \cup {"("})
        p == RunEnd(raw, e, WS)
    IN  IF w > c /\ t > w /\ e > t /\ Ch(raw, p) = "("
        THEN [ok |-> TRUE, gtype |-> Sub(raw, c, w - 1), inst |-> Sub(raw, t, e - 1)]
        ELSE [ok |-> FALSE, gtype |-> "", inst |-> ""]

\* the test of line 388: the stripped line starts with a declarative keyword
IsDeclarative(line) == \E k \in DeclKeywords : StartsWith(line, k)

\* the test of line 394
IsDropped(line) == StartsWith(line, "//") \/ StartsWith(line, "defparam")

\* "dff" in gtype
ContainsDff(gtype) == FindFrom(gtype, "dff", 1) # 0

(***************************************************************************)
(* Canonicalizer, the post-pass: syn.py 417-425.                            *)
(***************************************************************************)

IsBlank(l) == Strip(l) = ""

\* len([l for l in lines[:2] if l.strip() == ""])
BlankInFirstTwo(ls) == Cardinality({k \in 1..Len(ls) : k <= 2 /\ IsBlank(ls[k])})

\* a loop that pops every leading blank line, without the break of line 424
RECURSIVE PopWhileBlank(_)
PopWhileBlank(ls) == IF Len(ls) > 0 /\ IsBlank(ls[1]) THEN PopWhileBlank(Tail(ls)) ELSE ls

\* the while loop of lines 420-424: pop the first line while it is blank, and
\* after a second blank one in a row pop that too and break
RECURSIVE StripLeading(_)
StripLeading(ls) ==
    IF Len(ls) > 0 /\ IsBlank(ls[1]) /\ BlankInFirstTwo(ls) > 0
    THEN LET l1 == Tail(ls)
         IN  IF Len(l1) > 0 /\ IsBlank(l1[1]) THEN Tail(l1) ELSE StripLeading(l1)
    ELSE ls

(***************************************************************************)
(* The state: one call of post_process_netlist.                             *)
(***************************************************************************)

VARIABLES
    design,     \* how the input text was built (constant through a run)
    input,      \* verilog_text, the argument
    pc,         \* "strip", "hex", "scan", "done", "raised": the place in the function
    text,       \* text_no_comments, then text_converted
    lines,      \* lines = verilog_text.splitlines()
    i,          \* the loop index of line 378, 1-based
    out,        \* out, the emitted lines
    meta,       \* for each line of out: the input lines it came from
    result,     \* the returned string
    stripped,   \* how many lines the post-pass popped
    pass        \* 1 for a call on the input, 2 for the call on its own output

\* the state of one call of prep_data
VARIABLES
    found,          \* the paths os.walk has still to yield, in the order it yields them
    verilog_files,  \* verilog_files after the sort of line 484
    pos,            \* the place of the for loop of line 499 in verilog_files, 1-based
    count_start,    \* the argument count_start
    count,          \* count
    errors,         \* errors
    warnings_log,   \* warnings_log
    large_circuits, \* large_circuits
    netlists,       \* the design{n}.v files written: n to the path synthesized
    labels,         \* the result{n}.txt files written: n to the text written
    outcome,        \* for each path whose loop iteration has started, how it ended
    printed,        \* the lines of the summary printed from line 596 on
    ppc             \* "start", "loop", "returned", "raised": the place in prep_data

prepVars == <<found, verilog_files, pos, count_start, count, errors, warnings_log,
              large_circuits, netlists, labels, outcome, printed, ppc>>

\* no call of prep_data is under way
PrepIdle ==
    /\ found = <<>>
    /\ verilog_files = <<>>
    /\ pos = 1
    /\ count_start = 0
    /\ count = 0
    /\ errors = <<>>
    /\ warnings_log = <<>>
    /\ large_circuits = <<>>
    /\ netlists = <<>>
    /\ labels = <<>>
    /\ outcome = <<>>
    /\ printed = <<>>
    /\ ppc = "idle"

\* the state of one call of analyze_synthesis_output
VARIABLES
    report,             \* what the synthesis tool printed, before it was printed
    stdout,             \* the argument stdout
    stderr,             \* the argument stderr
    netlist_content,    \* the argument netlist_content
    circuit_name,       \* the argument circuit_name
    warnings,           \* warnings
    unconnected_wires,  \* unconnected_wires
    unused_count,       \* unused_count
    gate_count,         \* gate_count
    apc                 \* the place in analyze_synthesis_output

analyzeVars == <<report, stdout, stderr, netlist_content, circuit_name, warnings,
                 unconnected_wires, unused_count, gate_count, apc>>

\* no call of analyze_synthesis_output is under way
AnalyzeIdle ==
    /\ report = [cells |-> <<>>, gates |-> <<>>, noise |-> <<>>]
    /\ stdout = ""
    /\ stderr = ""
    /\ netlist_content = ""
    /\ circuit_name = ""
    /\ warnings = <<>>
    /\ unconnected_wires = {}
    /\ unused_count = 0
    /\ gate_count = 0
    /\ apc = "idle"

\* the state of one call of add_instance_id_to_module_name
VARIABLES
    verilog_code,   \* the argument verilog_code
    instance_id,    \* the argument instance_id
    renamed,        \* the returned text
    rpc             \* "call" before the call, "returned" after it

renameVars == <<verilog_code, instance_id, renamed, rpc>>

\* no call of add_instance_id_to_module_name is under way
RenameIdle ==
    /\ verilog_code = ""
    /\ instance_id = 0
    /\ renamed = ""
    /\ rpc = "idle"

\* the state of one call of inject_parameters
VARIABLES
    host_circuit,   \* verilog_code: the text, rewritten once for every parameter
    params,         \* the argument params: [struct, crypto], each a sequence of [name, value]
    param_configs,  \* the argument param_configs: a function from names to their configs
    injected,       \* the number of parameters the loop has gone through
    ipc             \* "loop" in the loop, "returned" after the call

injectVars == <<host_circuit, params, param_configs, injected, ipc>>

\* no call of inject_parameters is under way
InjectIdle ==
    /\ host_circuit = ""
    /\ params = [struct |-> <<>>, crypto |-> <<>>]
    /\ param_configs = <<>>
    /\ injected = 0
    /\ ipc = "idle"

canonVars == <<design, input, pc, text, lines, i, out, meta, result, stripped, pass>>

\* what a call of each function leaves alone
others == <<prepVars, analyzeVars, renameVars, injectVars>>

outsidePrep == <<canonVars, analyzeVars, renameVars, injectVars>>

outsideAnalyze == <<canonVars, prepVars, renameVars, injectVars>>

outsideRename == <<canonVars, prepVars, analyzeVars, injectVars>>

outsideInject == <<canonVars, prepVars, analyzeVars, renameVars>>

vars == <<canonVars, others>>

\* the state at the entry of post_process_netlist(t)
Enter(t) ==
    /\ input = t
    /\ pc = "strip"
    /\ text = t
    /\ lines = <<>>
    /\ i = 1
    /\ out = <<>>
    /\ meta = <<>>
    /\ result = ""
    /\ stripped = 0

\* lines 259-261
StripCommentsStep ==
    /\ pc = "strip"
    /\ text' = StripComments(input)
    /\ pc' = "hex"
    /\ UNCHANGED <<others, design, input, lines, i, out, meta, result, stripped, pass>>

\* lines 293-296 and 376-378
ConvertLiterals ==
    /\ pc = "hex"
    /\ ~HexRaisesFrom(text, 1)
    /\ text' = ConvertHex(text)
    /\ lines' = SplitLines(text')
    /\ out' = <<>>
    /\ i' = 1
    /\ pc' = "scan"
    /\ UNCHANGED <<others, design, input, meta, result, stripped, pass>>

\* line 287 inside the re.sub of line 293: the exception leaves the function
RaiseOverflow ==
    /\ pc = "hex"
    /\ HexRaisesFrom(text, 1)
    /\ pc' = "raised"
    /\ UNCHANGED <<others, design, input, text, lines, i, out, meta, result, stripped, pass>>

Scanning == pc = "scan" /\ i <= Len(lines)

\* what meta records of an emitted line
Origin(kind, src, next, full, balance) ==
    [kind |-> kind, src |-> src, next |-> next, full |-> full, balance |-> balance]

\* lines 383-386
BlankLine ==
    /\ Scanning
    /\ Strip(lines[i]) = ""
    /\ out' = Append(out, lines[i])
    /\ meta' = Append(meta, Origin("blank", i, i + 1, lines[i], 0))
    /\ i' = i + 1
    /\ UNCHANGED <<others, design, input, pc, text, lines, result, stripped, pass>>

\* lines 388-392 with the stripped line appended in place of the raw one
DeclarativeLineStripped ==
    /\ Scanning
    /\ Strip(lines[i]) # ""
    /\ IsDeclarative(Strip(lines[i]))
    /\ out' = Append(out, Strip(lines[i]))
    /\ meta' = Append(meta, Origin("decl", i, i + 1, lines[i], 0))
    /\ i' = i + 1
    /\ UNCHANGED <<others, design, input, pc, text, lines, result, stripped, pass>>

\* lines 388-392
DeclarativeLine ==
    /\ Scanning
    /\ Strip(lines[i]) # ""
    /\ IsDeclarative(Strip(lines[i]))
    /\ out' = Append(out, lines[i])
    /\ meta' = Append(meta, Origin("decl", i, i + 1, lines[i], 0))
    /\ i' = i + 1
    /\ UNCHANGED <<others, design, input, pc, text, lines, result, stripped, pass>>

\* lines 394-396 with the index moved past the line after the dropped one as well
DropLineAndNext ==
    /\ Scanning
    /\ Strip(lines[i]) # ""
    /\ ~IsDeclarative(Strip(lines[i]))
    /\ IsDropped(Strip(lines[i]))
    /\ i' = i + 2
    /\ UNCHANGED <<others, design, input, pc, text, lines, out, meta, result, stripped, pass>>

\* lines 394-396
DropLine ==
    /\ Scanning
    /\ Strip(lines[i]) # ""
    /\ ~IsDeclarative(Strip(lines[i]))
    /\ IsDropped(Strip(lines[i]))
    /\ i' = i + 1
    /\ UNCHANGED <<others, design, input, pc, text, lines, out, meta, result, stripped, pass>>

\* lines 403-410: the line emitted for a statement of cell type gtype
FormatInstance(gtype, inst, full) ==
    IF gtype \in primitive_types THEN format_primitive(gtype, inst, full)
    ELSE IF gtype = "dff" \/ ContainsDff(gtype) THEN format_dff(inst, full)
    ELSE Strip(CollapseWS(full))

\* which branch of lines 403-410 a cell type takes
InstanceKind(gtype) ==
    IF gtype \in primitive_types THEN "prim"
    ELSE IF gtype = "dff" \/ ContainsDff(gtype) THEN "dff"
    ELSE "cell"

\* lines 398-412
Instantiation ==
    /\ Scanning
    /\ Strip(lines[i]) # ""
    /\ ~IsDeclarative(Strip(lines[i]))
    /\ ~IsDropped(Strip(lines[i]))
    /\ InstMatch(lines[i]).ok
    /\ LET m == InstMatch(lines[i])
           gtype == Lower(m.gtype)
           inst == clean_cell_ident(m.inst)
           st == collect_instance(lines, i)
       IN  /\ out' = Append(out, FormatInstance(gtype, inst, st.full))
           /\ meta' = Append(meta, Origin(InstanceKind(gtype), i, st.next, st.full, st.balance))
           /\ i' = st.next
    /\ UNCHANGED <<others, design, input, pc, text, lines, result, stripped, pass>>

\* lines 414-415
PassThrough ==
    /\ Scanning
    /\ Strip(lines[i]) # ""
    /\ ~IsDeclarative(Strip(lines[i]))
    /\ ~IsDropped(Strip(lines[i]))
    /\ ~InstMatch(lines[i]).ok
    /\ out' = Append(out, lines[i])
    /\ meta' = Append(meta, Origin("other", i, i + 1, lines[i], 0))
    /\ i' = i + 1
    /\ UNCHANGED <<others, design, input, pc, text, lines, result, stripped, pass>>

\* lines 417-425
PostPass ==
    /\ pc = "scan"
    /\ i > Len(lines)
    /\ LET split == Split(Join(out, "\n"), "\n")
           kept == StripLeading(split)
       IN  /\ result' = Join(kept, "\n")
           /\ stripped' = Len(split) - Len(kept)
    /\ pc' = "done"
    /\ UNCHANGED <<others, design, input, text, lines, i, out, meta, pass>>

\* the driver of an idempotence run: post_process_netlist(post_process_netlist(T))
Rerun ==
    /\ pc = "done"
    /\ pass = 1
    /\ pass' = 2
    /\ input' = result
    /\ text' = result
    /\ pc' = "strip"
    /\ lines' = <<>>
    /\ i' = 1
    /\ out' = <<>>
    /\ meta' = <<>>
    /\ result' = ""
    /\ stripped' = 0
    /\ UNCHANGED <<others, design>>

(***************************************************************************)
(* The input texts.  A design is a netlist fragment: lines before, one      *)
(* statement, lines after.  The statement is either written out, or         *)
(* rendered from a cell type, an instance name, a list of named pins and a  *)
(* way of wrapping it over lines.                                           *)
(***************************************************************************)

MaxLead == 3        \* leading blank lines of an input
MaxPins == 3        \* named pins listed in a rendered instantiation
MaxWidth == 9       \* width of a rendered hex literal
MaxHexLen == 2      \* digits of a rendered hex literal

GatePins == {"Y", "A", "B"}
DffPins == {"RN", "SN", "CK", "D", "Q", "SI"}

\* the net each rendered pin connects to
NetOf(pin) ==
    CASE pin = "Y" -> "y" [] pin = "A" -> "a" [] pin = "B" -> "b[0]"
      [] pin = "RN" -> "rn" [] pin = "SN" -> "sn" [] pin = "CK" -> "clk"
      [] pin = "D" -> "d" [] pin = "Q" -> "q" [] pin = "SI" -> "si"

\* the lists of 1..n distinct pins of P
PinSeqs(P, n) ==
    {s \in UNION {[1..k -> P] : k \in 1..n} : \A a, b \in DOMAIN s : a # b => s[a] # s[b]}

PinText(pin) == "." \o pin \o "(" \o NetOf(pin) \o ")"

PinTexts(pins) == [k \in 1..Len(pins) |-> PinText(pins[k])]

\* line: on one line;  pins: opener, one pin per line, closer (the synthesizer's
\* own layout);  net: the first net on a line of its own;  opener: the line
\* breaks before the opening parenthesis;  dot: the line breaks between the
\* dot and the name of the first pin
WrapStyles == {"line", "pins", "net", "opener", "dot"}

Render(ty, inst, pins, wrap) ==
    LET all == Join(PinTexts(pins), ", ")
        rest == Join(PinTexts(Tail(pins)), ", ")
        more == IF Len(pins) > 1 THEN ", " \o rest ELSE ""
    IN  CASE wrap = "line" -> <<ty \o " " \o inst \o " (" \o all \o ");">>
          [] wrap = "pins" ->
                <<ty \o " " \o inst \o " (">>
                \o [k \in 1..Len(pins) |->
                       "    " \o PinText(pins[k]) \o (IF k < Len(pins) THEN "," ELSE "")]
                \o <<"  );">>
          [] wrap = "net" ->
                <<ty \o " " \o inst \o " (." \o pins[1] \o "(",
                  "      " \o NetOf(pins[1]),
                  "  )" \o more \o ");">>
          [] wrap = "opener" -> <<ty \o " " \o inst, "  (" \o all \o ");">>
          [] wrap = "dot" ->
                <<ty \o " " \o inst \o " (.", pins[1] \o "(" \o NetOf(pins[1]) \o ")" \o more \o ");">>

NoLines == <<>>

Rendered(ty, inst, pins, wrap) ==
    [fam |-> "pins", ty |-> ty, inst |-> inst, pins |-> pins, wrap |-> wrap,
     w |-> 0, hex |-> "", pre |-> NoLines, body |-> Render(ty, inst, pins, wrap), post |-> NoLines]

PinDesigns ==
    {Rendered(ty, inst, pins, wrap) :
        ty \in {"not", "buf"}, inst \in {"u1", "\\u1"},
        pins \in PinSeqs(GatePins, MaxPins), wrap \in WrapStyles}
    \cup
    {Rendered(ty, "g2", pins, wrap) :
        ty \in {"and", "or", "nand", "nor", "xor", "xnor"},
        pins \in PinSeqs(GatePins, MaxPins), wrap \in {"line", "pins"}}
    \cup
    {Rendered("dff_1", "u0", pins, wrap) :
        pins \in PinSeqs(DffPins, MaxPins), wrap \in {"line", "pins"}}

\* k blank lines
BlankLines(k) == [j \in 1..k |-> ""]

Pres ==
    {BlankLines(k) : k \in 0..MaxLead}
    \cup {<<"// top">>,
          <<" \t", "/* a */ // b">>,
          <<"module m (a, y); // hdr">>,
          <<"  wire [3:0] w = 4'hA;">>,
          <<"defparam u.W = 8'h1F;">>}

Bodies ==
    {<<"and g1 (.Y(y), .A(a), .B(b));">>,
     <<"and g3 (a,", "  b">>,
     <<"or g4 (", "  .Y(y), .A(a)">>,
     <<"dff_1 u0 (", "  .CK(clk), .D(d), .Q(q)", ");">>,
     <<"mux2 u5 (", "  .S(s),", "  .Z(z)", ");">>,
     <<"buf g6 (y, a));">>,
     <<"nand g7 (y, a [0], b [ 1 ] [2]);">>,
     <<"\\$xor \\$g8 (.Y(y), .A(a), .B(b));">>,
     <<"nor $$g9 (.Y(y), .A(a), .B(b));">>,
     <<"assign y = a;">>,
     <<"dff u2 (.D(d), .Q(q)">>,
     <<"not g10 (", "", "  .A(a), // in", "  .Y(y));">>,
     <<"xnor g11 (y, a, b)", ";">>,
     <<"sub u7 (.A(a),">>,
     <<"AND G12 (.Y(y), .A(a), .B(b));">>,
     <<"assign n = 99999999999999999999'hA;">>,
     <<"assign n = 2'h1'hA;">>,
     <<"assign n = {4'hA, 2 'h 3};">>}

Posts ==
    {NoLines,
     <<"endmodule", "">>,
     <<"endmodule", "", "">>,
     <<"", "  input a;">>,
     <<"defparam p = 1;", "wire n1;">>,
     <<"// tail", "not g9 (y, a);">>}

Written(pre, body, post) ==
    [fam |-> "text", ty |-> "", inst |-> "", pins |-> NoLines, wrap |-> "",
     w |-> 0, hex |-> "", pre |-> pre, body |-> body, post |-> post]

TextDesigns == {Written(pre, body, post) : pre \in Pres, body \in Bodies, post \in Posts}

\* the digit strings of 1..n characters over alphabet A
DigitStrings(A, n) ==
    LET Grow[k \in 0..n] ==
            IF k = 0 THEN {""} ELSE {x \o c : x \in Grow[k - 1], c \in A}
    IN  UNION {Grow[k] : k \in 1..n}

\* hex digits, the ignored underscore, and the unknown and wildcard characters
HexAlphabet == {"0", "1", "A", "f", "_", "x", "?"}

\* a continuous assignment of one sized hex literal
LiteralLine(w, hex) == "assign n = " \o FormatInt(w) \o "'h" \o hex \o ";"

Literal(w, hex) ==
    [fam |-> "hex", ty |-> "", inst |-> "", pins |-> NoLines, wrap |-> "",
     w |-> w, hex |-> hex, pre |-> NoLines, body |-> <<LiteralLine(w, hex)>>,
     post |-> NoLines]

HexDesigns ==
    {Literal(w, hex) : w \in 0..MaxWidth, hex \in DigitStrings(HexAlphabet, MaxHexLen)}

\* a continuous assignment of one hex literal without a width
Unsized(hex) ==
    [fam |-> "bare", ty |-> "", inst |-> "", pins |-> NoLines, wrap |-> "",
     w |-> 0, hex |-> hex, pre |-> NoLines, body |-> <<"assign n = 'h" \o hex \o ";">>,
     post |-> NoLines]

BareDesigns == {Unsized(hex) : hex \in DigitStrings(HexAlphabet, MaxHexLen)}

\* cell types that hold "dff", and one that does not
FlopTypes == {"dff", "DFF", "dff_1", "sdffr", "SDFFR_X1", "input_dff", "wire_dff4", "latch"}

FlopDesigns ==
    {Rendered(ty, "u3", pins, "line") : ty \in FlopTypes, pins \in {<<"D", "Q">>, <<"Q", "CK", "D">>}}

\* nets as a positional connection list writes them
PosNets == {"y", "a [0]", "b [ 1 ] [2]"}

\* the lists of 1..n nets
NetSeqs(n) == UNION {[1..k -> PosNets] : k \in 1..n}

\* a gate with positional connections.  line: on one line;  args: opener, one
\* net per line, closer;  open: on one line, the closing parenthesis and the
\* semicolon missing
RenderPositional(ty, inst, nets, wrap) ==
    CASE wrap = "line" -> <<ty \o " " \o inst \o " (" \o Join(nets, ", ") \o ");">>
      [] wrap = "args" ->
            <<ty \o " " \o inst \o " (">>
            \o [k \in 1..Len(nets) |->
                   "    " \o nets[k] \o (IF k < Len(nets) THEN "," ELSE "")]
            \o <<"  );">>
      [] wrap = "open" -> <<ty \o " " \o inst \o " (" \o Join(nets, ", ")>>

Positional(ty, inst, nets, wrap) ==
    [fam |-> "pos", ty |-> ty, inst |-> inst, pins |-> nets, wrap |-> wrap,
     w |-> 0, hex |-> "", pre |-> NoLines, body |-> RenderPositional(ty, inst, nets, wrap),
     post |-> NoLines]

PositionalDesigns ==
    {Positional(ty, "g5", nets, wrap) :
        ty \in {"nand", "not"}, nets \in NetSeqs(MaxPins), wrap \in {"line", "args", "open"}}

\* blank lines and one comment line: nothing but blank lines is assembled
BlankDesigns == {Written(BlankLines(k), <<"// end">>, NoLines) : k \in 0..MaxLead}

Designs ==
    TextDesigns \cup PinDesigns \cup HexDesigns \cup BareDesigns \cup FlopDesigns
        \cup BlankDesigns \cup PositionalDesigns

\* the text of a design
TextOf(d) == Join(d.pre \o d.body \o d.post, "\n")

Init ==
    /\ design \in Designs
    /\ pass = 1
    /\ Enter(TextOf(design))
    /\ PrepIdle
    /\ AnalyzeIdle
    /\ RenameIdle
    /\ InjectIdle

Next ==
    \/ StripCommentsStep
    \/ ConvertLiterals
    \/ RaiseOverflow
    \/ BlankLine
    \/ DeclarativeLine
    \/ DropLine
    \/ Instantiation
    \/ PassThrough
    \/ PostPass

Spec == Init /\ [][Next]_vars

\* two calls in a row, the second on the output of the first
NextTwice == Next \/ Rerun

SpecTwice == Init /\ [][NextTwice]_vars

\* the call has neither returned nor raised
Running == pc \in {"strip", "hex", "scan"}

\* the call moves on: every step of Next is taken while Running and changes the
\* position or the line index
Moves ==
    /\ Running
    /\ pc' \in {"hex", "scan", "done", "raised"}
    /\ i' \in 1..(i + Len(lines) + 1)

\* post_process_netlist as a sequential function: a call that has not ended
\* does not stop (the interpreter runs the next statement)
SpecRun == Spec /\ WF_<<pc, i>>(Moves)

(***************************************************************************)
(* prep_data: the batch driver.                                             *)
(***************************************************************************)

\* no call of post_process_netlist is under way
CanonIdle ==
    /\ design = [fam |-> "none"]
    /\ input = ""
    /\ pc = "idle"
    /\ text = ""
    /\ lines = <<>>
    /\ i = 1
    /\ out = <<>>
    /\ meta = <<>>
    /\ result = ""
    /\ stripped = 0
    /\ pass = 1

\* the printable characters but the double quote and the backquote, in code point
\* order
Ascii ==
    " !#$%&'()*+,-./0123456789:;<=>?@ABCDEFGHIJKLMNOPQRSTUVWXYZ[\\]^_abcdefghijklmnopqrstuvwxyz{|}~"

CharRank(c) == CHOOSE k \in 1..Len(Ascii) : Ch(Ascii, k) = c

\* a < b for two strings, as list.sort() compares them
Before(a, b) ==
    \E k \in 1..Len(b) :
        /\ \A m \in 1..(k - 1) : m <= Len(a) /\ Ch(a, m) = Ch(b, m)
        /\ (k > Len(a) \/ CharRank(Ch(a, k)) < CharRank(Ch(b, k)))

\* p put at its place in the sorted sequence seq
RECURSIVE Insert(_, _)
Insert(p, seq) ==
    IF seq = <<>> THEN <<p>>
    ELSE IF Before(seq[1], p) THEN <<seq[1]>> \o Insert(p, Tail(seq))
    ELSE <<p>> \o seq

\* the list in the order os.walk yielded it
AsFound(seq) == seq

\* list.sort()
RECURSIVE Sorted(_)
Sorted(seq) == IF seq = <<>> THEN <<>> ELSE Insert(seq[1], Sorted(Tail(seq)))

\* fname.lower().endswith(".v")
IsVerilog(path) == Lower(From(path, Len(path) - 1)) = ".v"

\* the paths of seq that name a Verilog file, in order
RECURSIVE VerilogOnly(_)
VerilogOnly(seq) ==
    IF seq = <<>> THEN <<>>
    ELSE IF IsVerilog(seq[1]) THEN <<seq[1]>> \o VerilogOnly(Tail(seq))
    ELSE VerilogOnly(Tail(seq))

\* os.path.basename
Basename(path) == From(path, FindLastCh(path, "/", Len(path)) + 1)

\* os.path.splitext(b)[0]: a dot that only leads the name starts no extension
Stem(b) ==
    LET d == FindLastCh(b, ".", Len(b))
    IN  IF d > RunEnd(b, 1, {"."}) THEN Sub(b, 1, d - 1) ELSE b

\* the end (exclusive) of a match of ^trojan\d+_ (re.IGNORECASE), or 0
TrojanPrefixEnd(top) ==
    LET d == RunEnd(top, 7, Digits)
    IN  IF Lower(Sub(top, 1, 6)) = "trojan" /\ d > 7 /\ Ch(top, d) = "_" THEN d + 1 ELSE 0

\* top with the leading trojan{x}_ removed
Unprefixed(top) == IF TrojanPrefixEnd(top) > 0 THEN From(top, TrojanPrefixEnd(top)) ELSE top

\* s.replace(p, "")
RECURSIVE Remove(_, _)
Remove(s, p) ==
    LET k == FindFrom(s, p, 1)
    IN  IF k = 0 THEN s ELSE Sub(s, 1, k - 1) \o Remove(From(s, k + Len(p)), p)

\* the top of lines 512-515
BaseTop(vf) == Unprefixed(Stem(Basename(vf)))

\* the branch lines 518-525 take
Classify(vf) ==
    IF FindFrom(BaseTop(vf), "_clean", 1) # 0 THEN "clean"
    ELSE IF FindFrom(BaseTop(vf), "_trojaned", 1) # 0 THEN "trojaned"
    ELSE "unknown"

\* top, as passed to synthesize
TopOf(vf) ==
    IF Classify(vf) = "clean" THEN Remove(BaseTop(vf), "_clean")
    ELSE Remove(BaseTop(vf), "_trojaned")

\* \b of the re module between the characters k-1 and k of s
WordBoundary(s, k) == (Ch(s, k - 1) \in WordCh) # (Ch(s, k) \in WordCh)

\* a match of \bmodule\s+Trojan(\d+)\b starts at k
TrojanModuleAt(s, k) ==
    LET e == RunEnd(s, k + 6, WS)
        d == RunEnd(s, e + 6, Digits)
    IN  /\ WordBoundary(s, k)
        /\ OccursAt(s, "module", k)
        /\ e > k + 6
        /\ OccursAt(s, "Trojan", e)
        /\ d > e + 6
        /\ WordBoundary(s, d)

\* type_match of lines 531-534 ("None" for None, as an f-string writes it)
TypeMatch(s) ==
    IF \E k \in 1..Len(s) : TrojanModuleAt(s, k)
    THEN LET k == CHOOSE k \in 1..Len(s) :
                      TrojanModuleAt(s, k) /\ \A m \in 1..(k - 1) : ~TrojanModuleAt(s, m)
             e == RunEnd(s, k + 6, WS)
         IN  Sub(s, e + 6, RunEnd(s, e + 6, Digits) - 1)
    ELSE "None"

\* the text of the label file, lines 582-587
LabelText(vf, s) ==
    IF Classify(vf) = "clean" THEN "NO_TROJAN\n"
    ELSE "TROJANED\n" \o "Trojan" \o TypeMatch(s) \o "\n"

\* the threshold of line 563
LargeLogged == 60000

\* the message of lines 568-571 for the exception e
SynthesisError(vf, e) ==
    IF FindFrom(Lower(e), "timeout", 1) # 0 \/ FindFrom(e, "exceeded 8 seconds", 1) # 0
    THEN "Error synthesizing " \o vf \o ": Synthesis timeout (>8s) - circuit too complex"
    ELSE "Error synthesizing " \o vf \o ": " \o e

\* what str(e) is for the exceptions synthesize lets out
YosysExit == "Command '['yosys', 'synth.ys']' returned non-zero exit status 1."

YosysTimeout == "Synthesis timeout: exceeded 8 seconds for script synth.ys"

\* the number the next successful file gets
NextCount(c) == c + 1


\* f with the key n set to v
Put(f, n, v) == [k \in DOMAIN f \cup {n} |-> IF k = n THEN v ELSE f[k]]

\* lines 471-497: the directory is walked, the list sorted
Collect ==
    /\ ppc = "start"
    /\ verilog_files' = Sorted(VerilogOnly(found))
    /\ ppc' = IF VerilogOnly(found) = <<>> THEN "returned" ELSE "loop"
    /\ found' = <<>>
    /\ UNCHANGED <<outsidePrep, pos, count_start, count, errors, warnings_log,
                   large_circuits, netlists, labels, outcome, printed>>

\* the file under the loop
Current == verilog_files[pos]

InLoop == ppc = "loop" /\ pos <= Len(verilog_files)

\* lines 501-529 for a file that cannot be opened: the failure of the first
\* open is recorded, the second open (or the name test before it) raises
CannotRead ==
    /\ InLoop
    /\ \E e \in {"[Errno 13] Permission denied"} :
           errors' = Append(errors, "Warning: cannot read " \o Current \o ": " \o e)
    /\ outcome' = Put(outcome, Current, "unreadable")
    /\ ppc' = "raised"
    /\ UNCHANGED <<outsidePrep, found, verilog_files, pos, count_start, count, warnings_log,
                   large_circuits, netlists, labels, printed>>

\* lines 501-525 for a readable file that is neither _clean nor _trojaned
UnknownFile ==
    /\ InLoop
    /\ Classify(Current) = "unknown"
    /\ outcome' = Put(outcome, Current, "unknown")
    /\ ppc' = "raised"
    /\ UNCHANGED <<outsidePrep, found, verilog_files, pos, count_start, count, errors,
                   warnings_log, large_circuits, netlists, labels, printed>>

\* lines 501-579 for a file whose synthesis raises e
SynthesisFails ==
    /\ InLoop
    /\ Classify(Current) # "unknown"
    /\ \E e \in {YosysExit, YosysTimeout} :
           errors' = Append(errors, SynthesisError(Current, e))
    /\ outcome' = Put(outcome, Current, "failed")
    /\ pos' = pos + 1
    /\ UNCHANGED <<outsidePrep, found, verilog_files, count_start, count, warnings_log,
                   large_circuits, netlists, labels, printed, ppc>>

\* the RTL sources read at line 529
Sources ==
    {"module  Trojan3 (a);", "module top (a);", "submodule Trojan7 (a);",
     "module Trojan12x (a);"}

\* what synthesize returns: warnings and gate_count
Reports ==
    {<<<<>>, 0>>,
     <<<<"LATCH_WARNING: 1 latch(es) inferred">>, 60000>>,
     <<<<"LARGE_CIRCUIT_WARNING: Circuit has 60001 gates (>60,000)">>, 60001>>}

\* lines 501-589 for a file that synthesizes: netlist, label, count
Synthesized ==
    /\ InLoop
    /\ Classify(Current) # "unknown"
    /\ \E s \in Sources, r \in Reports :
           /\ netlists' = Put(netlists, count, Current)
           /\ warnings_log' =
                  IF r[1] # <<>>
                  THEN Append(warnings_log, Basename(Current) \o ": " \o Join(r[1], ", "))
                  ELSE warnings_log
           /\ large_circuits' =
                  IF r[2] > LargeLogged
                  THEN Append(large_circuits,
                              Basename(Current) \o ": " \o FormatInt(r[2]) \o " gates")
                  ELSE large_circuits
           /\ labels' = Put(labels, count, LabelText(Current, s))
    /\ count' = NextCount(count)
    /\ outcome' = Put(outcome, Current, "ok")
    /\ pos' = pos + 1
    /\ UNCHANGED <<outsidePrep, found, verilog_files, count_start, errors, printed, ppc>>

\* each entry of a log, indented as the summary prints it
Indented(log) == [k \in DOMAIN log |-> "  " \o log[k]]

\* lines 591-615: the summary
Summary ==
    /\ ppc = "loop"
    /\ pos > Len(verilog_files)
    /\ printed' =
           <<"Synthesis completed: " \o FormatInt(count - count_start) \o "/"
                 \o FormatInt(Len(verilog_files)) \o " files successful">>
           \o (IF warnings_log # <<>>
               THEN <<"Warnings encountered (" \o FormatInt(Len(warnings_log)) \o " files):">>
                        \o Indented(warnings_log)
               ELSE <<>>)
           \o (IF large_circuits # <<>>
               THEN <<"Large circuits detected (" \o FormatInt(Len(large_circuits))
                          \o " files):">> \o Indented(large_circuits)
               ELSE <<>>)
           \o (IF errors # <<>>
               THEN <<"Errors encountered (" \o FormatInt(Len(errors)) \o " total):">>
                        \o Indented(errors)
               ELSE IF warnings_log = <<>> /\ large_circuits = <<>>
               THEN <<"All files synthesized successfully with no warnings!">>
               ELSE <<>>)
    /\ ppc' = "returned"
    /\ UNCHANGED <<outsidePrep, found, verilog_files, pos, count_start, count, errors,
                   warnings_log, large_circuits, netlists, labels, outcome>>

\* the most files a directory holds
MaxFiles == 3

\* the paths a directory may hold
Paths ==
    {"rtl/a_clean.v", "rtl/trojan3_b_trojaned.v", "rtl/c.v", "rtl/Sub/d_trojaned.V",
     "rtl/notes.txt"}

\* the elements of a sequence
Range(seq) == {seq[k] : k \in DOMAIN seq}

\* the sequences of exactly n paths, none twice
RECURSIVE WalksOf(_)
WalksOf(n) ==
    IF n = 0 THEN {<<>>}
    ELSE LET shorter == WalksOf(n - 1)
         IN  UNION {{Append(a, p) : p \in Paths \ Range(a)} : a \in shorter}

\* a directory is walked in any order
Walks == UNION {WalksOf(n) : n \in 0..MaxFiles}

InitPrep ==
    /\ CanonIdle
    /\ AnalyzeIdle
    /\ RenameIdle
    /\ InjectIdle
    /\ found \in Walks
    /\ verilog_files = <<>>
    /\ pos = 1
    /\ count_start \in {0, 7}
    /\ count = count_start
    /\ errors = <<>>
    /\ warnings_log = <<>>
    /\ large_circuits = <<>>
    /\ netlists = <<>>
    /\ labels = <<>>
    /\ outcome = <<>>
    /\ printed = <<>>
    /\ ppc = "start"

NextPrep ==
    \/ Collect
    \/ CannotRead
    \/ UnknownFile
    \/ SynthesisFails
    \/ Synthesized
    \/ Summary

SpecPrep == InitPrep /\ [][NextPrep]_vars

(***************************************************************************)
(* The regular expressions of analyze_synthesis_output, as the re module   *)
(* matches them: a pattern is a sequence of elements, matched left to      *)
(* right with backtracking, every repetition greedy.                       *)
(***************************************************************************)

\* the characters a literal can start with
FirstOf(str, ic) ==
    IF ic THEN {c \in LowerCase \cup UpperCase \cup {Ch(str, 1)} : LowerOf(c) = LowerOf(Ch(str, 1))}
    ELSE {Ch(str, 1)}

\* a literal; ic: re.IGNORECASE applies
Lit(str, ic) ==
    [el |-> "lit", str |-> str, ic |-> ic, first |-> FirstOf(str, ic), cls |-> {},
     neg |-> FALSE, least |-> 0, sub |-> <<>>]

\* cls+ or cls* (least = 1 or 0); neg: the class is complemented
Run(cls, neg, least) ==
    [el |-> "run", str |-> "", ic |-> FALSE, first |-> {}, cls |-> cls, neg |-> neg,
     least |-> least, sub |-> <<>>]

\* cls+? or cls*? : a run that takes as few characters as the rest allows
Lazy(cls, neg, least) == [Run(cls, neg, least) EXCEPT !.el = "lazy"]

\* (?:sub)?
Opt(sub) ==
    [el |-> "opt", str |-> "", ic |-> FALSE, first |-> {}, cls |-> {}, neg |-> FALSE,
     least |-> 0, sub |-> sub]

\* .* : any characters but a newline
AnyRun == Run({"\n"}, TRUE, 0)

\* the literal of the element e occurs at k of s
LitAt(s, e, k) ==
    /\ Ch(s, k) \in e.first
    /\ k + Len(e.str) - 1 <= Len(s)
    /\ IF e.ic THEN Lower(Sub(s, k, k + Len(e.str) - 1)) = Lower(e.str)
       ELSE Sub(s, k, k + Len(e.str) - 1) = e.str

\* the positions after k counting down to lo, longest run first
Descending(k, lo) == [n \in 1..(k - lo + 1) |-> k - n + 1]

\* the positions from lo up to k, shortest run first
Ascending(lo, k) == [n \in 1..(k - lo + 1) |-> lo + n - 1]

\* Ends(e, s, k): the positions where an element e starting at k can end, in
\* the order the matcher tries them.  Match(p, s, k): the start of every
\* element of p and the end of the last, for the match the matcher finds at k,
\* or <<>>.  Try(p, s, ends, n): the match of p from the first of the positions
\* ends[n], ends[n+1], ... that has one.  An optional group is matched as a
\* whole or not at all.
RECURSIVE Match(_, _, _)
RECURSIVE Try(_, _, _, _)
Ends(e, s, k) ==
    IF e.el = "lit" THEN (IF LitAt(s, e, k) THEN <<k + Len(e.str)>> ELSE <<>>)
    ELSE IF e.el = "run"
    THEN LET stop == IF e.neg THEN RunEndNot(s, k, e.cls) ELSE RunEnd(s, k, e.cls)
         IN  Descending(stop, k + e.least)
    ELSE IF e.el = "lazy"
    THEN LET stop == IF e.neg THEN RunEndNot(s, k, e.cls) ELSE RunEnd(s, k, e.cls)
         IN  Ascending(k + e.least, stop)
    ELSE LET m == Match(e.sub, s, k)
         IN  IF m = <<>> THEN <<k>> ELSE <<m[Len(m)], k>>

Try(p, s, ends, n) ==
    IF n > Len(ends) THEN <<>>
    ELSE LET m == Match(p, s, ends[n])
         IN  IF m # <<>> THEN m ELSE Try(p, s, ends, n + 1)

Match(p, s, k) ==
    IF p = <<>> THEN <<k>>
    ELSE LET m == Try(Tail(p), s, Ends(p[1], s, k), 1)
         IN  IF m = <<>> THEN <<>> ELSE <<k>> \o m

\* a match of p can start at k only where its first literal is
StartsAt(p, s, k) == (p[1].el = "lit" => Ch(s, k) \in p[1].first) /\ Match(p, s, k) # <<>>

\* the first match of p in s at or after k, or <<>> (re.search from k)
SearchFrom(p, s, k) ==
    IF \E a \in k..Len(s) : StartsAt(p, s, a)
    THEN Match(p, s, CHOOSE a \in k..Len(s) :
                         StartsAt(p, s, a) /\ \A b \in k..(a - 1) : ~StartsAt(p, s, b))
    ELSE <<>>

\* the text of the elements a..b of a match m (a group), or of the whole match
GroupText(s, m, grp) ==
    IF grp = <<>> THEN Sub(s, m[1], m[Len(m)] - 1)
    ELSE Sub(s, m[grp[1]], m[grp[2] + 1] - 1)

\* re.findall(p, s): for each match the text of its group
RECURSIVE FindAllFrom(_, _, _, _)
FindAllFrom(p, grp, s, k) ==
    LET m == SearchFrom(p, s, k)
    IN  IF m = <<>> THEN <<>>
        ELSE <<GroupText(s, m, grp)>>
                 \o FindAllFrom(p, grp, s, IF m[Len(m)] > m[1] THEN m[Len(m)] ELSE m[1] + 1)

FindAll(p, grp, s) == FindAllFrom(p, grp, s, 1)

(***************************************************************************)
(* analyze_synthesis_output.                                                *)
(***************************************************************************)

\* lines 129-134
latch_patterns ==
    <<<<Lit("inferred latch", TRUE)>>,
      <<Lit("creating latch", TRUE)>>,
      <<Lit("latch for signal", TRUE)>>,
      <<Lit("PROC_DLATCH", TRUE), AnyRun, Lit("created", TRUE), AnyRun, Lit("latch", TRUE)>>>>

\* ([^\s]+(?:\s*\[[^\]]+\])?): a signal name with an optional index
SignalName ==
    <<Run(WS, TRUE, 1),
      Opt(<<Run(WS, FALSE, 0), Lit("[", FALSE), Run({"]"}, TRUE, 1), Lit("]", FALSE)>>)>>

\* lines 163-173: each pattern with the elements its group spans
unconnected_patterns ==
    <<[p |-> <<Lit("Warning: Wire ", TRUE)>> \o SignalName
                  \o <<Lit(" is used but has no driver", TRUE)>>, grp |-> <<2, 3>>],
      [p |-> <<Lit("Warning: ", TRUE)>> \o SignalName
                  \o <<Lit(" is not driven by any cell output", TRUE)>>, grp |-> <<2, 3>>],
      [p |-> <<Lit("unused wire: ", TRUE)>> \o SignalName, grp |-> <<2, 3>>],
      [p |-> <<Lit("undriven wire: ", TRUE)>> \o SignalName, grp |-> <<2, 3>>],
      [p |-> <<Lit("floating wire: ", TRUE)>> \o SignalName, grp |-> <<2, 3>>],
      [p |-> <<Lit("Warning", TRUE), AnyRun, Lit("unconnected", TRUE), AnyRun,
               Lit("wire", TRUE), AnyRun>> \o SignalName, grp |-> <<7, 8>>],
      [p |-> <<Lit("Warning", TRUE), AnyRun, Lit("wire", TRUE), AnyRun>> \o SignalName
                  \o <<AnyRun, Lit("not connected", TRUE)>>, grp |-> <<5, 6>>],
      [p |-> <<Lit("Warning", TRUE), AnyRun>> \o SignalName
                  \o <<AnyRun, Lit("has no driver", TRUE)>>, grp |-> <<3, 4>>],
      [p |-> <<Lit("Warning: Port ", TRUE)>> \o SignalName
                  \o <<Lit(" of cell", TRUE), AnyRun, Lit("is unconnected", TRUE)>>,
       grp |-> <<2, 3>>]>>

\* lines 188-193
opt_warning_patterns ==
    <<[p |-> <<Lit("Warning:", TRUE), AnyRun, Lit("removed ", TRUE), Run(Digits, FALSE, 1),
               Lit(" unused", TRUE), AnyRun>>, grp |-> <<>>],
      [p |-> <<Lit("Warning:", TRUE), AnyRun, Run(Digits, FALSE, 1), Lit(" wires", TRUE),
               AnyRun, Lit("unused", TRUE)>>, grp |-> <<3, 3>>],
      [p |-> <<Lit("Warning: found ", TRUE), Run(Digits, FALSE, 1),
               Lit(" undriven signals", TRUE)>>, grp |-> <<>>],
      [p |-> <<Lit("Warning", TRUE), AnyRun, Lit("unused", TRUE), AnyRun,
               Run(Digits, FALSE, 1)>>, grp |-> <<5, 5>>]>>

\* line 222
cell_pattern == <<Lit("Number of cells:", FALSE), Run(WS, FALSE, 0), Run(Digits, FALSE, 1)>>

\* \$_<NAME>_\s+(\d+)
GatePattern(name) ==
    [p |-> <<Lit("$_" \o name \o "_", FALSE), Run(WS, FALSE, 1), Run(Digits, FALSE, 1)>>,
     grp |-> <<3, 3>>]

\* \$_<NAME>_\w*\s+(\d+)
FlopPattern(name) ==
    [p |-> <<Lit("$_" \o name \o "_", FALSE), Run(WordCh, FALSE, 0), Run(WS, FALSE, 1),
             Run(Digits, FALSE, 1)>>,
     grp |-> <<4, 4>>]

\* lines 227-237
gate_patterns ==
    <<GatePattern("AND"), GatePattern("OR"), GatePattern("NOT"), GatePattern("NAND"),
      GatePattern("NOR"), GatePattern("XOR"), GatePattern("XNOR"),
      FlopPattern("DFF"), FlopPattern("DFFE")>>

\* the longest digit string int() converts (CPython 3.11 and later)
MaxStrDigits == 4300

\* int(s) raises ValueError
IntRaises(s) == Len(s) > MaxStrDigits

\* str.isdigit() of an ASCII string
IsDigitString(s) == s # "" /\ RunEnd(s, 1, Digits) = Len(s) + 1

\* the threshold of line 245
LargeCircuit == 60000

\* line 126
full_output == stdout \o stderr

\* the matches of every pattern of a list, in order
RECURSIVE AllMatches(_, _)
AllMatches(patterns, s) ==
    IF patterns = <<>> THEN <<>>
    ELSE FindAll(patterns[1].p, patterns[1].grp, s) \o AllMatches(Tail(patterns), s)

\* lines 136-140: the warning of the first latch pattern that matches
RECURSIVE LatchWarning(_, _)
LatchWarning(patterns, s) ==
    IF patterns = <<>> THEN <<>>
    ELSE LET matches == FindAll(patterns[1], <<>>, s)
         IN  IF matches # <<>>
             THEN <<"LATCH_WARNING: " \o FormatInt(Len(matches)) \o " latch(es) inferred">>
             ELSE LatchWarning(Tail(patterns), s)

LatchCheck ==
    /\ apc = "latch"
    /\ warnings' = warnings \o LatchWarning(latch_patterns, full_output)
    /\ apc' = "assign"
    /\ UNCHANGED <<outsideAnalyze, report, stdout, stderr, netlist_content,
                   circuit_name, unconnected_wires, unused_count, gate_count>>

\* lines 144-147: "Line {n}: {line.strip()}" for the lines holding "assign"
RECURSIVE AssignLines(_, _)
AssignLines(ls, n) ==
    IF n > Len(ls) THEN <<>>
    ELSE (IF FindFrom(ls[n], "assign", 1) # 0
          THEN <<"Line " \o FormatInt(n) \o ": " \o Strip(ls[n])>>
          ELSE <<>>) \o AssignLines(ls, n + 1)

\* lines 149-159
AssignWarnings(al, name) ==
    IF al = <<>> THEN <<>>
    ELSE <<IF name # ""
           THEN "ASSIGN_WARNING: Circuit '" \o name \o "' has " \o FormatInt(Len(al))
                    \o " assign statement(s) in netlist"
           ELSE "ASSIGN_WARNING: " \o FormatInt(Len(al))
                    \o " assign statement(s) found in netlist">>
         \o [k \in 1..(IF Len(al) < 3 THEN Len(al) ELSE 3) |-> "  " \o al[k]]
         \o (IF Len(al) > 3
             THEN <<"  ... and " \o FormatInt(Len(al) - 3) \o " more assign statements">>
             ELSE <<>>)
         \o <<"  (This may indicate incomplete synthesis or optimization issues)">>

AssignCheck ==
    /\ apc = "assign"
    /\ warnings' =
           IF netlist_content # ""
           THEN warnings \o AssignWarnings(AssignLines(SplitLines(netlist_content), 1),
                                           circuit_name)
           ELSE warnings
    /\ apc' = "unconnected"
    /\ UNCHANGED <<outsideAnalyze, report, stdout, stderr, netlist_content,
                   circuit_name, unconnected_wires, unused_count, gate_count>>

\* lines 175-185
UnconnectedScan ==
    /\ apc = "unconnected"
    /\ unconnected_wires' = Range(AllMatches(unconnected_patterns, full_output))
    /\ apc' = "unused"
    /\ UNCHANGED <<outsideAnalyze, report, stdout, stderr, netlist_content,
                   circuit_name, warnings, unused_count, gate_count>>

\* the sum of int(m) over the matches that are digit strings
RECURSIVE SumDigits(_)
SumDigits(matches) ==
    IF matches = <<>> THEN 0
    ELSE (IF IsDigitString(matches[1]) THEN ParseInt(matches[1]) ELSE 0)
             + SumDigits(Tail(matches))

\* lines 195-205
UnusedScan ==
    /\ apc = "unused"
    /\ unused_count' = SumDigits(AllMatches(opt_warning_patterns, full_output))
    /\ apc' = "issues"
    /\ UNCHANGED <<outsideAnalyze, report, stdout, stderr, netlist_content,
                   circuit_name, warnings, unconnected_wires, gate_count>>

\* the elements of a set of strings as a sorted list
RECURSIVE SortedSet(_)
SortedSet(S) ==
    IF S = {} THEN <<>>
    ELSE LET least == CHOOSE a \in S : \A b \in S \ {a} : Before(a, b)
         IN  <<least>> \o SortedSet(S \ {least})

\* lines 209-214
UnconnectedWarning(wires) ==
    IF wires = {} THEN <<>>
    ELSE LET names == SortedSet(wires)
             shown == SubSeq(names, 1, IF Len(names) < 5 THEN Len(names) ELSE 5)
         IN  <<"UNCONNECTED_WARNING: " \o FormatInt(Cardinality(wires))
                   \o " unconnected wire(s): " \o Join(shown, ", ")
                   \o (IF Cardinality(wires) <= 5 THEN "" ELSE " ...")>>

\* lines 216-217
UnusedWarning(n) ==
    IF n > 0 THEN <<"UNUSED_WARNING: " \o FormatInt(n) \o " unused/removed signal(s)">>
    ELSE <<>>

\* lines 208-217
ReportIssues ==
    /\ apc = "issues"
    /\ warnings' = warnings \o UnconnectedWarning(unconnected_wires) \o UnusedWarning(unused_count)
    /\ apc' = "cells"
    /\ UNCHANGED <<outsideAnalyze, report, stdout, stderr, netlist_content,
                   circuit_name, unconnected_wires, unused_count, gate_count>>

\* the digit strings lines 224 and 242 hand to int()
Counted(s) ==
    LET cell_match == SearchFrom(cell_pattern, s, 1)
    IN  IF cell_match # <<>> THEN <<GroupText(s, cell_match, <<3, 3>>)>>
        ELSE AllMatches(gate_patterns, s)

\* lines 220-242
CountCells ==
    /\ apc = "cells"
    /\ \A k \in DOMAIN Counted(full_output) : ~IntRaises(Counted(full_output)[k])
    /\ gate_count' = SumDigits(Counted(full_output))
    /\ apc' = "size"
    /\ UNCHANGED <<outsideAnalyze, report, stdout, stderr, netlist_content,
                   circuit_name, warnings, unconnected_wires, unused_count>>

\* lines 224 and 242: int() refuses a digit string
CountRaises ==
    /\ apc = "cells"
    /\ \E k \in DOMAIN Counted(full_output) : IntRaises(Counted(full_output)[k])
    /\ apc' = "raised"
    /\ UNCHANGED <<outsideAnalyze, report, stdout, stderr, netlist_content,
                   circuit_name, warnings, unconnected_wires, unused_count, gate_count>>

\* the test of a mutant that warns from the threshold on
IsLargeFrom(n) == n >= LargeCircuit

\* the test of line 245
IsLarge(n) == n > LargeCircuit

\* lines 244-248
SizeCheck ==
    /\ apc = "size"
    /\ warnings' =
           IF IsLarge(gate_count)
           THEN Append(warnings, "LARGE_CIRCUIT_WARNING: Circuit has " \o FormatInt(gate_count)
                                     \o " gates (>60,000)")
           ELSE warnings
    /\ apc' = "returned"
    /\ UNCHANGED <<outsideAnalyze, report, stdout, stderr, netlist_content,
                   circuit_name, unconnected_wires, unused_count, gate_count>>

\* "0" * n followed by nothing: a number of MaxStrDigits + 1 digits
Huge == "1" \o Zeros(MaxStrDigits)

\* the "Number of cells:" lines of a stat report, as the digits they show
CellLists == {<<>>, <<"0">>, <<"12">>, <<"60000">>, <<"60001">>, <<"12", "99">>, <<Huge>>}

\* a cell type line of a stat report
Cell(name, n) == [name |-> name, n |-> n]

\* the cell type lines of a stat report
GateLists ==
    {<<>>,
     <<Cell("$_AND_", "5")>>,
     <<Cell("$_AND_", "5"), Cell("$_OR_", "7"), Cell("$_MUX_", "4")>>,
     <<Cell("$_DFF_P_", "3"), Cell("$_DFFE_PP_", "4"), Cell("$_SDFF_PP0_", "2")>>,
     <<Cell("$_NAND_", "60001")>>,
     <<Cell("$_NOT_", "60000")>>,
     <<Cell("$_XOR_", "2"), Cell("$_XNOR_", "3"), Cell("$_NOR_", "59996")>>,
     <<Cell("$_AND_", Huge)>>}

\* the other lines of the output
NoiseLists ==
    {<<>>,
     <<"Warning: Wire \\top.n1 is used but has no driver.">>,
     <<"Inferred latch for signal `\\top.q' from process.">>,
     <<"Warning: removed 3 unused cells.", "Warning: 12 wires are unused">>,
     <<"number of cells: 12", "Number of cells: none">>,
     <<"Printing statistics.", "=== top ===">>}

\* a stat report: what it holds, before it is printed; every count with every
\* list of cell types, and the other lines around a few of them
StatReports ==
    [cells : CellLists, gates : GateLists, noise : {<<>>}]
        \cup [cells : {<<>>, <<"12">>}, gates : {<<>>, <<Cell("$_AND_", "5")>>},
              noise : NoiseLists]

\* the lines yosys prints for a report
CellLines(cells) == [k \in DOMAIN cells |-> "   Number of cells:      " \o cells[k]]

GateLines(gates) == [k \in DOMAIN gates |-> "     " \o gates[k].name \o "      " \o gates[k].n]

Printed(r) ==
    LET ls == r.noise \o CellLines(r.cells) \o GateLines(r.gates)
    IN  IF ls = <<>> THEN "" ELSE Join(ls, "\n") \o "\n"

\* what comes with the report: stderr, the netlist, the circuit name
Contexts ==
    {<<"", "", "">>,
     <<"", "module top(a, y);\n  assign y = a;\nendmodule\n", "top">>,
     <<"Warning: Port A of cell g1 (buf) is unconnected\n",
       "wire n;\nassign n = a;\n  assign y = n;\nassign z = n;\n\tassign w = z ;\n", "">>,
     <<"", "assign a = b;\nnot g1(y, a);\nassign c = d;\nassign e = f;\n", "">>,
     <<"", "wire unassigned;\nnand g1(y, unassigned, b);\n", "top">>}

InitAnalyze ==
    /\ CanonIdle
    /\ PrepIdle
    /\ RenameIdle
    /\ InjectIdle
    /\ report \in StatReports
    /\ stdout = Printed(report)
    /\ \E c \in Contexts :
           /\ stderr = c[1]
           /\ netlist_content = c[2]
           /\ circuit_name = c[3]
    /\ warnings = <<>>
    /\ unconnected_wires = {}
    /\ unused_count = 0
    /\ gate_count = 0
    /\ apc = "latch"

NextAnalyze ==
    \/ LatchCheck
    \/ AssignCheck
    \/ UnconnectedScan
    \/ UnusedScan
    \/ ReportIssues
    \/ CountCells
    \/ CountRaises
    \/ SizeCheck

SpecAnalyze == InitAnalyze /\ [][NextAnalyze]_vars

(***************************************************************************)
(* add_instance_id_to_module_name of trojan_generator.py.                  *)
(***************************************************************************)

\* line 123, the pattern with its optional group (#.*?) taken:
\* module\s+(\w+)\s*#.*?\s*\(
WithParams ==
    <<Lit("module", FALSE), Run(WS, FALSE, 1), Run(WordCh, FALSE, 1), Run(WS, FALSE, 0),
      Lit("#", FALSE), Lazy({"\n"}, TRUE, 0), Run(WS, FALSE, 0), Lit("(", FALSE)>>

\* line 123, the pattern with its optional group skipped: module\s+(\w+)\s*\s*\(
WithoutParams ==
    <<Lit("module", FALSE), Run(WS, FALSE, 1), Run(WordCh, FALSE, 1), Run(WS, FALSE, 0),
      Run(WS, FALSE, 0), Lit("(", FALSE)>>

\* The match of the pattern at k.  The group can only be taken after the whole
\* name and all the blanks behind it (a "#" follows neither a part of a name
\* nor a part of a blank run), which is the first thing the matcher tries, and
\* there it tries the group before it skips it: so the match is the one with
\* the group whenever there is one.
ModuleMatch(s, k) ==
    LET m == Match(WithParams, s, k)
    IN  IF m # <<>> THEN [m |-> m, params |-> TRUE]
        ELSE [m |-> Match(WithoutParams, s, k), params |-> FALSE]

ModuleStartsAt(s, k) == Ch(s, k) = "m" /\ ModuleMatch(s, k).m # <<>>

\* d padded with zeros on the left to w characters
ZeroPad(d, w) == IF Len(d) >= w THEN d ELSE Zeros(w - Len(d)) \o d

\* f"{n:04d}": at least four characters, the sign one of them
Format04d(n) == IF n < 0 THEN "-" \o ZeroPad(FormatInt(0 - n), 3) ELSE ZeroPad(FormatInt(n), 4)

\* line 125: match.group(1)
module_name(s, r) == Sub(s, r.m[3], r.m[4] - 1)

\* line 126: match.group(2), None when the group took no part
param_part(s, r) == IF r.params THEN Sub(s, r.m[5], r.m[7] - 1) ELSE ""

\* lines 124-132
replacement(s, r, id) ==
    IF param_part(s, r) # ""
    THEN "module " \o module_name(s, r) \o "_" \o Format04d(id) \o " " \o param_part(s, r) \o " ("
    ELSE "module " \o module_name(s, r) \o "_" \o Format04d(id) \o " ("

\* line 134: re.sub from k on, every match replaced and the text between the
\* matches kept
RECURSIVE SubFrom(_, _, _)
SubFrom(s, k, id) ==
    IF \E a \in k..Len(s) : ModuleStartsAt(s, a)
    THEN LET a == CHOOSE a \in k..Len(s) :
                      ModuleStartsAt(s, a) /\ \A b \in k..(a - 1) : ~ModuleStartsAt(s, b)
             r == ModuleMatch(s, a)
         IN  Sub(s, k, a - 1) \o replacement(s, r, id) \o SubFrom(s, r.m[Len(r.m)], id)
    ELSE From(s, k)

\* lines 118-134: the call
add_instance_id_to_module_name ==
    /\ rpc = "call"
    /\ renamed' = SubFrom(verilog_code, 1, instance_id)
    /\ rpc' = "returned"
    /\ UNCHANGED <<verilog_code, instance_id, outsideRename>>

\* The texts the calls are made with: the two headers of
\* test_add_instance_id_to_module_name, headers with other spacing, with a
\* parameter list on a line of its own, two modules, and text with no header.
Headers ==
    {"module test_module (input clk, output data);",
     "module test_module #(parameter WIDTH = 8) (input clk);",
     "module t(a);",
     "module  t\n(a);",
     "module t # (a) (b);",
     "module t #x y (b);",
     "submodule u (a); module m(b);",
     "module t;\nmodule u (a);",
     "module t #\n(a);",
     "module t#(",
     "module t #;\n (",
     "module t #(parameter W = 8)\n(input clk);",
     "module a (x); endmodule\nmodule b #(P) (y); endmodule",
     "wire w;"}

\* the instance numbers: generate_batch passes 0, 1, 2, ...
InstanceIds == {0, 7, 42, 123, 9999, 10000, 0 - 5}

InitRename ==
    /\ CanonIdle
    /\ PrepIdle
    /\ AnalyzeIdle
    /\ InjectIdle
    /\ verilog_code \in Headers
    /\ instance_id \in InstanceIds
    /\ renamed = ""
    /\ rpc = "call"

NextRename == add_instance_id_to_module_name

SpecRename == InitRename /\ [][NextRename]_vars

(***************************************************************************)
(* inject_parameters and format_parameter_value of trojan_generator.py.    *)
(***************************************************************************)

\* str(n) of an integer
Str(n) == IF n < 0 THEN "-" \o FormatInt(0 - n) ELSE FormatInt(n)

\* n.bit_length(): the bits of the magnitude of n
RECURSIVE BitLength(_)
BitLength(n) ==
    IF n < 0 THEN BitLength(0 - n) ELSE IF n = 0 THEN 0 ELSE 1 + BitLength(n \div 2)

\* a parameter value: an int n, or something else that str() renders as s
IntValue(n) == [int |-> TRUE, n |-> n, s |-> ""]

TextValue(s) == [int |-> FALSE, n |-> 0, s |-> s]

\* a parameter config: its 'type' ("" when it has none) and its 'bits'
Config(type, hasbits, bits) == [type |-> type, hasbits |-> hasbits, bits |-> bits]

\* line 104: param_configs.get(param_name, {})
NoConfig == Config("", FALSE, 0)

ConfigOf(configs, name) == IF name \in DOMAIN configs THEN configs[name] ELSE NoConfig

\* lines 70-83: the width of a random_hex parameter; all_params is never
\* empty inside the loop and _eval_bits returns an int 'bits' as it is
BitWidth(param_value, param_config) ==
    IF param_config.hasbits THEN param_config.bits
    ELSE IF BitLength(param_value.n) < 1 THEN 1 ELSE BitLength(param_value.n)

\* lines 57-88
format_parameter_value(param_name, param_value, param_config) ==
    IF ~param_value.int THEN param_value.s
    ELSE IF param_config.type \in {"choice", "random_int", "range"} THEN Str(param_value.n)
    ELSE IF param_config.type = "random_hex"
    THEN Str(BitWidth(param_value, param_config)) \o "'d" \o Str(param_value.n)
    ELSE Str(param_value.n)

\* the names of a sequence of parameters
Names(seq) == {seq[k].name : k \in DOMAIN seq}

\* the value a sequence of parameters gives a name it holds
ValueIn(seq, name) == seq[CHOOSE k \in DOMAIN seq : seq[k].name = name].value

\* the entries of a sequence whose names are outside a set
RECURSIVE NotIn(_, _)
NotIn(seq, names) ==
    IF seq = <<>> THEN <<>>
    ELSE (IF seq[1].name \in names THEN <<>> ELSE <<seq[1]>>) \o NotIn(Tail(seq), names)

\* lines 97-99: {**struct_params, **crypto_vars}: the structural parameters in
\* their order, each with the value crypto_vars gives it if it gives one, then
\* the parameters only crypto_vars has
all_params ==
    [k \in DOMAIN params.struct |->
        [name |-> params.struct[k].name,
         value |-> IF params.struct[k].name \in Names(params.crypto)
                   THEN ValueIn(params.crypto, params.struct[k].name)
                   ELSE params.struct[k].value]]
        \o NotIn(params.crypto, Names(params.struct))

\* line 108: parameter\s+(\[[^\]]+\]\s+)?NAME\s*=\s*[^,\)\n;]+
ParameterPattern(name) ==
    <<Lit("parameter", FALSE), Run(WS, FALSE, 1),
      Opt(<<Lit("[", FALSE), Run({"]"}, TRUE, 1), Lit("]", FALSE), Run(WS, FALSE, 1)>>),
      Lit(name, FALSE), Run(WS, FALSE, 0), Lit("=", FALSE), Run(WS, FALSE, 0),
      Run({",", ")", "\n", ";"}, TRUE, 1)>>

\* line 114: re.sub(pattern, replacement, verilog_code, count=1)
SubFirst(p, repl, s) ==
    LET m == SearchFrom(p, s, 1)
    IN  IF m = <<>> THEN s ELSE Sub(s, 1, m[1] - 1) \o repl \o From(s, m[Len(m)])

\* lines 102-114: the loop body for one parameter
Injected(s, param, configs) ==
    LET param_str == format_parameter_value(param.name, param.value, ConfigOf(configs, param.name))
    IN  SubFirst(ParameterPattern(param.name),
                 "parameter " \o param.name \o " = " \o param_str, s)

\* lines 102-114: one turn of the loop
InjectParameter ==
    /\ ipc = "loop"
    /\ injected < Len(all_params)
    /\ host_circuit' = Injected(host_circuit, all_params[injected + 1], param_configs)
    /\ injected' = injected + 1
    /\ UNCHANGED <<params, param_configs, ipc, outsideInject>>

\* line 116
InjectReturn ==
    /\ ipc = "loop"
    /\ injected = Len(all_params)
    /\ ipc' = "returned"
    /\ UNCHANGED <<host_circuit, params, param_configs, injected, outsideInject>>

Param(name, value) == [name |-> name, value |-> value]

\* The texts: the module of test_inject_parameters, a parameter declared
\* twice and with a range, a list after one keyword, an expression as value,
\* and a text with no parameter.
HostCircuits ==
    {"module test #(\n  parameter DATA_WIDTH = 16,\n  parameter PATTERN = 32'hDEADBEEF\n) (input clk);\nendmodule\n",
     "parameter [31:0] PATTERN = 32'hFF;\nparameter PATTERN = 8'h0F;",
     "parameter DATA_WIDTH=8, PATTERN=4;",
     "parameter MASK = (DATA_WIDTH + 1);\nparameter DATA_WIDTH = 16;",
     "wire w;"}

\* The parameter dictionaries: the one of test_inject_parameters (PATTERN is
\* 0x12345678), one parameter, a value that is no int, crypto_vars that
\* override and add, a negative value, and none.
ParamSets ==
    {[struct |-> <<Param("DATA_WIDTH", IntValue(32)), Param("PATTERN", IntValue(305419896))>>,
      crypto |-> <<>>],
     [struct |-> <<Param("DATA_WIDTH", IntValue(32))>>, crypto |-> <<>>],
     [struct |-> <<Param("PATTERN", TextValue("8'hAB"))>>, crypto |-> <<>>],
     [struct |-> <<Param("DATA_WIDTH", IntValue(8))>>,
      crypto |-> <<Param("MASK", IntValue(5)), Param("DATA_WIDTH", IntValue(64))>>],
     [struct |-> <<Param("MASK", IntValue(0 - 5))>>, crypto |-> <<>>],
     [struct |-> <<>>, crypto |-> <<>>]}

\* the parameter configs: none, and configs of the types the hosts use
ConfigSets ==
    {<<>>,
     [n \in {"PATTERN"} |-> Config("random_hex", TRUE, 32)],
     [n \in {"PATTERN", "DATA_WIDTH"} |->
         IF n = "PATTERN" THEN Config("random_hex", FALSE, 0) ELSE Config("choice", FALSE, 0)],
     [n \in {"MASK"} |-> Config("fixed", FALSE, 0)]}

InitInject ==
    /\ CanonIdle
    /\ PrepIdle
    /\ AnalyzeIdle
    /\ RenameIdle
    /\ host_circuit \in HostCircuits
    /\ params \in ParamSets
    /\ param_configs \in ConfigSets
    /\ injected = 0
    /\ ipc = "loop"

NextInject ==
    \/ InjectParameter
    \/ InjectReturn

SpecInject == InitInject /\ [][NextInject]_vars

(***************************************************************************)
(* Properties.  A finished call has pc = "done"; line k of its result is    *)
(* line k + stripped of out, and meta tells where that line came from.      *)
(***************************************************************************)

Finished == pc = "done"

\* a name of word characters only
WordName(s) == Len(s) > 0 /\ \A k \in 1..Len(s) : Ch(s, k) \in WordCh

\* a net of word characters and bracketed indices
PlainNet(s) ==
    /\ Len(s) > 0
    /\ Ch(s, 1) \in WordCh
    /\ \A k \in 1..Len(s) : Ch(s, k) \in WordCh \cup {"[", "]", ":"}

\* the text between the first "(" of a line and its last two characters
ArgText(l) == Sub(l, FindFrom(l, "(", 1) + 1, Len(l) - 2)

\* the fields of a comma-and-space separated list are all plain nets
PlainList(fields) ==
    /\ PlainNet(fields[1])
    /\ \A k \in 2..Len(fields) : Ch(fields[k], 1) = " " /\ PlainNet(From(fields[k], 2))

\* .PIN(net) with a plain net
PlainPort(item) ==
    LET p == FindFrom(item, "(", 1)
    IN  /\ Ch(item, 1) = "."
        /\ p > 2
        /\ WordName(Sub(item, 2, p - 1))
        /\ Ch(item, Len(item)) = ")"
        /\ PlainNet(Sub(item, p + 1, Len(item) - 1))

PlainPorts(fields) ==
    /\ PlainPort(fields[1])
    /\ \A k \in 2..Len(fields) : Ch(fields[k], 1) = " " /\ PlainPort(From(fields[k], 2))

\* a line in the form the Gate Formatter writes: type, word name, plain nets
GateForm(l) ==
    LET m == InstMatch(l)
    IN  /\ WordName(m.inst)
        /\ l = "    " \o Lower(m.gtype) \o " " \o m.inst \o "(" \o ArgText(l) \o ");"
        /\ PlainList(Split(ArgText(l), ","))

\* a line in the form the Flip-Flop Formatter writes
DffForm(l) ==
    LET m == InstMatch(l)
    IN  /\ WordName(m.inst)
        /\ l = "    dff " \o m.inst \o "(" \o ArgText(l) \o ");"
        /\ ArgText(l) = "" \/ PlainPorts(Split(ArgText(l), ","))

\* the dispatcher takes the line for the opener of an instantiation
OpensInstance(l) ==
    /\ ~IsBlank(l)
    /\ ~IsDeclarative(Strip(l))
    /\ ~IsDropped(Strip(l))
    /\ InstMatch(l).ok

\* an instantiation line that is closed on its own line, has a word name and,
\* for a gate or a flip-flop, is in its formatter's form with plain nets
SettledLine(l) ==
    LET m == InstMatch(l)
        kind == InstanceKind(Lower(m.gtype))
    IN  /\ ParenBalance(l) = 0
        /\ WordName(m.inst)
        /\ kind = "prim" => GateForm(l)
        /\ kind = "dff" => DffForm(l)

\* a comment marker or a sized hex literal is left in the text
HasMarker(s) ==
    \E k \in 1..Len(s) : OccursAt(s, "//", k) \/ OccursAt(s, "/*", k) \/ HexStartsAt(s, k)

\* a text that starts with no blank line, ends with no empty line, holds no
\* comment marker and no sized hex literal, and whose instantiations are settled
Settled(o) ==
    LET ls == Split(o, "\n")
    IN  /\ o # "" => ~IsBlank(ls[1])
        /\ Ch(o, Len(o)) # "\n"
        /\ ~HasMarker(o)
        /\ \A k \in 1..Len(ls) : OpensInstance(ls[k]) => SettledLine(ls[k])

HexCharValue(c) ==
    CASE c \in Digits -> DigitVal(c)
      [] c \in {"a", "A"} -> 10 [] c \in {"b", "B"} -> 11 [] c \in {"c", "C"} -> 12
      [] c \in {"d", "D"} -> 13 [] c \in {"e", "E"} -> 14 [] c \in {"f", "F"} -> 15
      [] OTHER -> 0

\* the number a hex digit string denotes; an underscore is a separator
RECURSIVE HexValue(_)
HexValue(h) ==
    IF h = "" THEN 0
    ELSE IF Ch(h, Len(h)) = "_" THEN HexValue(Sub(h, 1, Len(h) - 1))
    ELSE 16 * HexValue(Sub(h, 1, Len(h) - 1)) + HexCharValue(Ch(h, Len(h)))

\* the number a string of binary digits denotes
RECURSIVE BinValue(_)
BinValue(b) ==
    IF b = "" THEN 0
    ELSE 2 * BinValue(Sub(b, 1, Len(b) - 1)) + (IF Ch(b, Len(b)) = "1" THEN 1 ELSE 0)

RECURSIVE Pow2(_)
Pow2(n) == IF n = 0 THEN 1 ELSE 2 * Pow2(n - 1)

Wildcards == {"x", "X", "z", "Z", "?"}

NoWildcard(h) == \A k \in 1..Len(h) : Ch(h, k) \notin Wildcards

\* the digits emitted after W'b for the literal of a hex design
EmittedBits ==
    Sub(result, Len("assign n = " \o FormatInt(design.w) \o "'b") + 1, Len(result) - 1)

\* C2 as stated: for every sized hex literal W'hHEX without wildcard characters,
\* the bit string emitted after W'b, read as an unsigned binary number, is the
\* value of HEX modulo 2^W.
C2_ValueModWidth ==
    (Finished /\ design.fam = "hex" /\ NoWildcard(design.hex)) =>
        /\ result = "assign n = " \o FormatInt(design.w) \o "'b" \o EmittedBits \o ";"
        /\ \A k \in 1..Len(EmittedBits) : Ch(EmittedBits, k) \in {"0", "1"}
        /\ BinValue(EmittedBits) = HexValue(design.hex) % Pow2(design.w)

\* a literal of width zero keeps every bit of its digits
C2_Witness ==
    /\ Finished
    /\ design.fam = "hex"
    /\ design.w = 0
    /\ design.hex = "A"
    /\ result = "assign n = 0'b1010;"

\* the lines of the argument and of the returned text
InputLines == SplitLines(input)

ResultLines == Split(result, "\n")

\* the emitted lines that the post-pass kept
Kept == {k \in 1..Len(meta) : k > stripped}

CommentOrDefparam(l) == StartsWith(Strip(l), "//") \/ StartsWith(Strip(l), "defparam")

\* C4 as stated: a comment-only input line and an input line starting with
\* defparam contribute no output line at all, not even an empty one, wherever
\* they occur: no line of the output comes from such an input line.
C4_CommentAndDefparamAbsent ==
    Finished =>
        \A k \in Kept :
            \A j \in meta[k].src..(meta[k].next - 1) : ~CommentOrDefparam(InputLines[j])

\* a comment-only line between two statements has left an empty output line
C4_Witness ==
    /\ Finished
    /\ design.body = <<"assign y = a;">>
    /\ design.post = <<"// tail", "not g9 (y, a);">>
    /\ result = "assign y = a;\n\n    not g9(y, a);"

\* the emitted lines that came from the Gate Formatter or the Flip-Flop Formatter
Formatted == {k \in Kept : meta[k].kind \in {"prim", "dff"}}

\* one output line, indented by exactly four spaces and closed by ";"
CanonicalLine(l) ==
    /\ StartsWith(l, "    ")
    /\ Ch(l, 5) \notin WS
    /\ Ch(l, Len(l)) = ";"
    /\ \A c \in 1..Len(l) : Ch(l, c) \notin LineBreaks

\* the joined statement has no ")" after its first "("
NeverCloses(full) ==
    FindFrom(full, "(", 1) = 0 \/ FindFrom(full, ")", FindFrom(full, "(", 1)) = 0

\* C5 as stated: every instantiation dispatched to the Gate Formatter or the
\* Flip-Flop Formatter is emitted as exactly one line that begins with exactly
\* four spaces and ends with ";", for every shape of the joined statement.
C5_AlwaysCanonical ==
    Finished =>
        /\ Len(meta) > stripped => Len(ResultLines) = Len(meta) - stripped
        /\ \A k \in Formatted : CanonicalLine(ResultLines[k - stripped])

\* C5, amended: every instantiation dispatched to the Flip-Flop Formatter, and
\* every one dispatched to the Gate Formatter whose joined statement has a ")"
\* after its first "(", is emitted as exactly one line that begins with exactly
\* four spaces and ends with ";"; a gate statement with no ")" after its first
\* "(" is emitted as one line too, but as the joined statement with its
\* whitespace collapsed, neither indented nor closed.
C5_CanonicalUnlessNeverClosed ==
    Finished =>
        /\ Len(meta) > stripped => Len(ResultLines) = Len(meta) - stripped
        /\ \A k \in Formatted :
              IF meta[k].kind = "prim" /\ NeverCloses(meta[k].full)
              THEN ResultLines[k - stripped] = Strip(CollapseWS(meta[k].full))
              ELSE CanonicalLine(ResultLines[k - stripped])

\* a flip-flop statement that never closes its parentheses has been formatted
C5_Witness ==
    /\ Finished
    /\ design.body = <<"dff u2 (.D(d), .Q(q)">>
    /\ design.pre = NoLines
    /\ 1 \in Formatted
    /\ meta[1].balance > 0
    /\ ResultLines[1] = "    dff u2(.D(d), .Q(q));"

\* the pins a rendered design lists
Listed == {design.pins[k] : k \in 1..Len(design.pins)}

\* the instance name of a rendered design without its escape
BareName == IF StartsWith(design.inst, "\\") THEN From(design.inst, 2) ELSE design.inst

\* a finished call on a rendered not or buf that lists Y and A
InverterDone ==
    /\ Finished
    /\ design.fam = "pins"
    /\ design.ty \in {"not", "buf"}
    /\ {"Y", "A"} \subseteq Listed

\* C6 as stated: a not or buf instantiation with instance name inst and named
\* pins .Y(y) and .A(a), in either pin order and with any line wrapping, is
\* emitted as four spaces, the type, a space, inst, then "(y, a);" (inst read as
\* the name without its escape).
C6_InverterAnyWrapping ==
    InverterDone => result = "    " \o design.ty \o " " \o BareName \o "(y, a);"

\* C6, amended: a not or buf instantiation with named pins .Y(y) and .A(a), in
\* either pin order, wrapped in any way that keeps the type, the instance name
\* and the opening parenthesis on the first line and keeps each pin's dot next to
\* its name, is emitted as four spaces, the type, a space, the instance name
\* without its leading backslash or $, then "(y, a);".
C6_InverterWrappedAfterOpener ==
    (InverterDone /\ design.wrap \in {"line", "pins", "net"}) =>
        result = "    " \o design.ty \o " " \o BareName \o "(y, a);"

\* a buf listing A before Y, its first net on a line of its own, has been emitted
C6_Witness ==
    /\ InverterDone
    /\ design.ty = "buf"
    /\ design.pins = <<"A", "Y">>
    /\ design.wrap = "net"
    /\ result = "    buf u1(y, a);"

\* C7: a two-input primitive (and, or, nand, nor, xor, xnor) instantiated with
\* named pins Y, A and B, listed in any order, is emitted as four spaces, the
\* type, the instance name and the nets of Y, A and B in that order.
C7_TwoInputPositional ==
    (/\ Finished
     /\ design.fam = "pins"
     /\ design.ty \in {"and", "or", "nand", "nor", "xor", "xnor"}
     /\ Listed = {"Y", "A", "B"}) =>
        result = "    " \o design.ty \o " " \o design.inst \o "("
                 \o NetOf("Y") \o ", " \o NetOf("A") \o ", " \o NetOf("B") \o ");"

\* a nor listing B, A, Y, one pin a line, has been emitted
C7_Witness ==
    /\ Finished
    /\ design.ty = "nor"
    /\ design.pins = <<"B", "A", "Y">>
    /\ design.wrap = "pins"
    /\ result = "    nor g2(y, a, b[0]);"

\* the pins of the fixed list that a rendered design lists, in the fixed order
FixedListed == SelectSeq(<<"RN", "SN", "CK", "D", "Q">>, LAMBDA pin : pin \in Listed)

\* C8: a dff instantiation whose named pins are a subset S of RN, SN, CK, D, Q
\* plus possibly other pins, written in any order, is emitted with exactly the
\* pins of S, each once as .PIN(net), in the order RN, SN, CK, D, Q, and with no
\* pin outside the fixed list.
C8_DffFixedOrder ==
    (Finished /\ design.fam = "pins" /\ design.ty = "dff_1") =>
        result = "    dff " \o design.inst \o "(" \o Join(PinTexts(FixedListed), ", ") \o ");"

\* a flip-flop listing Q, a scan pin and RN has been emitted without the scan pin
C8_Witness ==
    /\ Finished
    /\ design.ty = "dff_1"
    /\ design.pins = <<"Q", "SI", "RN">>
    /\ result = "    dff u0(.RN(rn), .Q(q));"

\* "(" minus ")" over lines s..e of ls
RECURSIVE Cum(_, _, _)
Cum(ls, s, e) == IF e < s THEN 0 ELSE Cum(ls, s, e - 1) + ParenBalance(ls[e])

\* the first line from s on at which the parentheses opened since s are closed,
\* or 0 when they never are
StatementEnd(ls, s) ==
    IF \E e \in s..Len(ls) : Cum(ls, s, e) <= 0
    THEN CHOOSE e \in s..Len(ls) :
             Cum(ls, s, e) <= 0 /\ \A d \in s..(e - 1) : Cum(ls, s, d) > 0
    ELSE 0

\* the emitted lines that came from an instantiation
Instances == {k \in 1..Len(meta) : meta[k].kind \in {"prim", "dff", "cell"}}

\* the statement of emitted line k is wrapped and balances out on its last line
WrappedAndBalanced(k) ==
    LET s == meta[k].src
        e == StatementEnd(lines, s)
    IN  e > s /\ Cum(lines, s, e) = 0

\* the flip-flop of the specification's example
ExampleDff == <<"dff_1 u0 (", "  .CK(clk), .D(d), .Q(q)", ");">>

\* the example is emitted as the line the specification gives
ExampleHolds ==
    design.body = ExampleDff =>
        \E k \in Instances :
            /\ meta[k].kind = "dff"
            /\ k \in Kept
            /\ ResultLines[k - stripped] = "    dff u0(.CK(clk), .D(d), .Q(q));"

\* C9 as stated: an instantiation wrapped over several input lines whose
\* parentheses balance out on its last line is emitted as exactly one output
\* line, all its continuation lines are consumed, and scanning resumes at the
\* first line after it; the example flip-flop becomes
\* "    dff u0(.CK(clk), .D(d), .Q(q));".
C9_WrappedIsOneLine ==
    Finished =>
        /\ ExampleHolds
        /\ (design.fam = "pins" /\ design.wrap # "line") =>
              /\ Len(meta) = 1
              /\ meta[1].next = Len(lines) + 1
              /\ Len(ResultLines) = 1

\* C9, amended: an instantiation whose first line holds the type, the instance
\* name and the opening parenthesis (so that the dispatcher takes it for an
\* opener), wrapped over several lines and balancing out on its last line, is
\* emitted as exactly one output line, all its continuation lines are consumed,
\* and scanning resumes at the first line after it; the example flip-flop
\* becomes "    dff u0(.CK(clk), .D(d), .Q(q));".
C9_OpenedWrappedIsOneLine ==
    Finished =>
        /\ ExampleHolds
        /\ Len(meta) > stripped => Len(ResultLines) = Len(meta) - stripped
        /\ \A k \in Instances :
              WrappedAndBalanced(k) =>
                  /\ k \in Kept
                  /\ meta[k].next = StatementEnd(lines, meta[k].src) + 1
                  /\ \A n \in 1..Len(meta) :
                        n # k => meta[n].src \notin meta[k].src..(meta[k].next - 1)
                  /\ k < Len(meta) => meta[k + 1].src >= meta[k].next

\* the example flip-flop, between other lines, has been emitted as one line and
\* the line after it has been scanned next
C9_Witness ==
    /\ Finished
    /\ design.body = ExampleDff
    /\ design.pre = <<"module m (a, y); // hdr">>
    /\ design.post = <<"endmodule", "">>
    /\ Len(meta) = 3
    /\ WrappedAndBalanced(2)
    /\ meta[2].next = 5
    /\ meta[3].src = 5
    /\ ResultLines[2] = "    dff u0(.CK(clk), .D(d), .Q(q));"

\* C10 as stated: every statement the Statement Segmenter returns has a
\* parenthesis balance of exactly zero over the lines it accumulated, for every
\* line list and every start index that opens an instantiation.
C10_BalanceZero ==
    \A k \in Instances : Cum(lines, meta[k].src, meta[k].next - 1) = 0

\* C10, amended: over the lines a statement of the Statement Segmenter
\* accumulated, the balance is positive after every line but the last, and after
\* the last it is zero or negative unless the statement runs to the last line of
\* the input: a statement that never closes is returned with a positive balance,
\* and one whose last line closes more parentheses than are open with a negative
\* one.
C10_BalanceZeroWhenClosed ==
    \A k \in Instances :
        LET s == meta[k].src
            e == meta[k].next - 1
            b == Cum(lines, s, e)
        IN  /\ meta[k].balance = b
            /\ e >= s
            /\ \A d \in s..(e - 1) : Cum(lines, s, d) > 0
            /\ b > 0 => e = Len(lines)

\* a statement of three lines has been returned with balance zero, before the
\* last line of the input
C10_Witness ==
    \E k \in Instances :
        /\ meta[k].next = meta[k].src + 3
        /\ meta[k].next <= Len(lines)
        /\ meta[k].balance = 0
        /\ Cum(lines, meta[k].src, meta[k].src + 1) > 0

\* a blank line, or a line whose stripped text starts with a declaration keyword
BlankOrDeclarative(l) == IsBlank(l) \/ IsDeclarative(Strip(l))

\* the continuation lines of the statement of emitted line k
Continuation(k) == (meta[k].src + 1)..(meta[k].next - 1)

\* C11 as stated: no statement the Statement Segmenter returns includes, among
\* its continuation lines, a blank line or a line starting with module, input,
\* output, wire or endmodule, also when the opener is not yet balanced.
C11_NoBlankOrKeywordAbsorbed ==
    \A k \in Instances : \A j \in Continuation(k) : ~BlankOrDeclarative(lines[j])

\* the last line of the statement that opens at line s: the line that closes its
\* parentheses, or the last line of the input when none does
LastLineOf(s) == IF StatementEnd(lines, s) # 0 THEN StatementEnd(lines, s) ELSE Len(lines)

\* C11, amended: the Statement Segmenter accumulates every line after the opener
\* up to the line that brings the parenthesis balance to zero or below, or to the
\* end of the input, whatever those lines hold: a blank line or a line starting
\* with module, input, output, wire or endmodule in that range is absorbed (as an
\* empty or a verbatim field of the joined statement), and no line is absorbed
\* when the opener is balanced.
C11_AbsorbsWhileOpen ==
    \A k \in Instances :
        /\ meta[k].next - 1 = LastLineOf(meta[k].src)
        /\ ParenBalance(lines[meta[k].src]) <= 0 => Continuation(k) = {}
        /\ meta[k].full =
               Join([j \in 1..(meta[k].next - meta[k].src) |->
                        Strip(lines[meta[k].src + j - 1])], " ")

\* a statement has absorbed a blank line and then closed
C11_Witness ==
    \E k \in Instances :
        /\ \E j \in Continuation(k) : IsBlank(lines[j])
        /\ meta[k].balance = 0
        /\ meta[k].full = "not g10 (  .A(a), .Y(y));"

\* C12 as stated: post_process_netlist never raises, whatever the input text:
\* every malformed line or instantiation, and every zero-width or oversized
\* literal, yields an output string.
C12_NeverRaises == pc # "raised"

\* a literal whose width does not fit a string index has raised
C12_Witness ==
    /\ pc = "raised"
    /\ design.body = <<"assign n = 99999999999999999999'hA;">>
    /\ design.pre = NoLines

\* four binary digits for the value of one hex digit
FourBits(c) ==
    LET v == HexCharValue(c)
        Bit(n) == IF (v \div n) % 2 = 1 THEN "1" ELSE "0"
    IN  Bit(8) \o Bit(4) \o Bit(2) \o Bit(1)

\* the expansion of a hex digit string, four bits a digit, underscores skipped
RECURSIVE Expansion(_)
Expansion(h) ==
    IF h = "" THEN ""
    ELSE IF Ch(h, 1) = "_" THEN Expansion(From(h, 2))
    ELSE FourBits(Ch(h, 1)) \o Expansion(From(h, 2))

\* C13 as stated: a hex literal without an explicit width, 'h<hexdigits>, is
\* rewritten to 'b<bits> with four bits per hex digit, neither truncated nor
\* padded.
C13_BareLiteralExpanded ==
    (Finished /\ design.fam = "bare" /\ NoWildcard(design.hex)) =>
        result = "assign n = 'b" \o Expansion(design.hex) \o ";"

\* a literal without a width has come through unchanged
C13_Witness ==
    /\ Finished
    /\ design.fam = "bare"
    /\ design.hex = "A"
    /\ result = "assign n = 'hA;"

\* the text holds an apostrophe, h or H, and a hex value character from i on,
\* with whitespace at most between them
BareAt(s, from) ==
    LET q == RunEnd(s, from, WS)
        h == RunEnd(s, q + 1, WS)
        v == RunEnd(s, h + 1, WS)
    IN  Ch(s, q) = "'" /\ Ch(s, h) \in {"h", "H"} /\ Ch(s, v) \in HexValCh

\* some sized literal of the text is followed at once by a literal without width
RECURSIVE ChainedFrom(_, _)
ChainedFrom(s, from) ==
    IF \E k \in from..Len(s) : HexStartsAt(s, k)
    THEN LET k == CHOOSE k \in from..Len(s) :
                      HexStartsAt(s, k) /\ \A m \in from..(k - 1) : ~HexStartsAt(s, m)
         IN  BareAt(s, HexMatchAt(s, k).end) \/ ChainedFrom(s, HexMatchAt(s, k).end)
    ELSE FALSE

\* the Literal Normalizer has run: text is its output
Normalized == pc \in {"scan", "done"}

\* C14 as stated: running the Literal Normalizer a second time is a no-op: for
\* every input text the substitution applied to its own output changes nothing.
C14_SecondRunNoOp == Normalized => ConvertHex(text) = text

\* the second run is a no-op when no sized literal of the input is followed,
\* with whitespace at most in between, by an apostrophe, h or H and a hex value
\* character
SecondRunNoOpUnlessChained ==
    (Normalized /\ ~ChainedFrom(StripComments(input), 1)) => ConvertHex(text) = text

\* the binary digits written for a sized literal have become the width of a
\* new match with the unsized literal that follows it
C14_Witness ==
    /\ Normalized
    /\ pass = 1
    /\ design.body = <<"assign n = 2'h1'hA;">>
    /\ design.pre = NoLines
    /\ design.post = NoLines
    /\ text = "assign n = 2'b01'hA;"
    /\ ConvertHex(text) = "assign n = 2'b1'b0;"

\* the cell type holds "dff", whatever the case of its letters
HoldsDff(ty) == \E k \in 1..Len(ty) : Lower(Sub(ty, k, k + 2)) = "dff"

\* C15 as stated: every instantiation whose cell type is dff or an identifier
\* holding the substring dff, in any case (dff_1, sdffr, input_dff), is emitted by
\* the Flip-Flop Formatter as a "    dff <inst>(...);" line.
C15_EveryDffTypeFormatted ==
    (Finished /\ design.fam = "pins" /\ HoldsDff(design.ty)) =>
        result = "    dff " \o design.inst \o "(" \o Join(PinTexts(FixedListed), ", ") \o ");"

\* a flip-flop cell whose type starts with a declaration keyword has been
\* passed through as a declaration
C15_Witness ==
    /\ Finished
    /\ design.ty = "input_dff"
    /\ design.pins = <<"D", "Q">>
    /\ meta[1].kind = "decl"
    /\ result = "input_dff u3 (.D(d), .Q(q));"

\* the call of prep_data has ended, by a return or by an exception
Ended == ppc \in {"returned", "raised"}

\* some entry of errors names the path
Recorded(vf) == \E k \in DOMAIN errors : FindFrom(errors[k], vf, 1) # 0

\* C16 as stated: prep_data continues past any single-file failure: whatever
\* goes wrong for one file (synthesis exit status, timeout, unreadable file, a
\* name with neither _clean nor _trojaned), the failure is recorded and every
\* later file in sorted order is still attempted.
C16_BatchContinues ==
    Ended =>
        \A k \in DOMAIN verilog_files :
            /\ verilog_files[k] \in DOMAIN outcome
            /\ outcome[verilog_files[k]] # "ok" => Recorded(verilog_files[k])

\* an unreadable first file has ended the batch with a later file never reached
C16_Witness ==
    /\ ppc = "raised"
    /\ verilog_files = <<"rtl/a_clean.v", "rtl/trojan3_b_trojaned.v">>
    /\ DOMAIN outcome = {"rtl/a_clean.v"}
    /\ outcome["rtl/a_clean.v"] = "unreadable"
    /\ Len(errors) = 1

\* the files synthesize returned for
Successful == {p \in DOMAIN outcome : outcome[p] = "ok"}

\* the place of p among the successful files in sorted path order
RankAmong(p) == Cardinality({q \in Successful : Before(q, p)}) + 1

\* C17: netlist files and label files are keyed by the same numbers: design{n}.v
\* is written iff result{n}.txt is, the numbers used are exactly count_start ..
\* count_start+s-1 for s successful files, the k-th successful file in sorted
\* path order has the number count_start+k-1, and a failed file takes none.
C17_SameNumbers ==
    /\ DOMAIN netlists = DOMAIN labels
    /\ DOMAIN netlists = count_start..(count_start + Cardinality(Successful) - 1)
    /\ count = count_start + Cardinality(Successful)
    /\ \A p \in Successful : netlists[count_start + RankAmong(p) - 1] = p
    /\ \A n \in DOMAIN labels :
           (Classify(netlists[n]) = "clean") = (labels[n] = "NO_TROJAN\n")

\* two files synthesized around one that failed
C17_Witness ==
    /\ ppc = "returned"
    /\ DOMAIN outcome = {"rtl/Sub/d_trojaned.V", "rtl/a_clean.v", "rtl/trojan3_b_trojaned.v"}
    /\ outcome["rtl/a_clean.v"] = "failed"
    /\ Cardinality(Successful) = 2
    /\ DOMAIN netlists = {7, 8}
    /\ netlists[7] = "rtl/Sub/d_trojaned.V"
    /\ netlists[8] = "rtl/trojan3_b_trojaned.v"

\* analyze_synthesis_output has returned
Analyzed == apc = "returned"

\* no pattern of analyze_synthesis_output matches the output, and no line of the
\* netlist holds "assign"
MatchesNothing ==
    /\ LatchWarning(latch_patterns, full_output) = <<>>
    /\ AssignLines(SplitLines(netlist_content), 1) = <<>>
    /\ AllMatches(unconnected_patterns, full_output) = <<>>
    /\ AllMatches(opt_warning_patterns, full_output) = <<>>
    /\ SearchFrom(cell_pattern, full_output, 1) = <<>>
    /\ AllMatches(gate_patterns, full_output) = <<>>

\* C18 as stated: analyze_synthesis_output returns an empty warning list and the
\* gate count 0 whenever the output and the netlist match none of its patterns,
\* and it returns normally, with no exception, for every pair of output strings.
C18_EmptyAndNeverRaises ==
    /\ apc # "raised"
    /\ (Analyzed /\ MatchesNothing) => (warnings = <<>> /\ gate_count = 0)

\* a cell count too long for int() has raised out of the function
C18_Witness ==
    /\ apc = "raised"
    /\ report = [cells |-> <<Huge>>, gates |-> <<>>, noise |-> <<>>]
    /\ stderr = ""
    /\ netlist_content = ""

\* the cell types the per-primitive patterns count
Primitive(name) ==
    \/ name \in {"$_AND_", "$_OR_", "$_NOT_", "$_NAND_", "$_NOR_", "$_XOR_", "$_XNOR_"}
    \/ StartsWith(name, "$_DFF_")
    \/ StartsWith(name, "$_DFFE_")

\* the sum of the counts a report shows for its primitives
RECURSIVE PrimitiveSum(_)
PrimitiveSum(gates) ==
    IF gates = <<>> THEN 0
    ELSE (IF Primitive(gates[1].name) THEN ParseInt(gates[1].n) ELSE 0)
             + PrimitiveSum(Tail(gates))

\* the count a report shows: its first "Number of cells" line, else the sum
ReportedCount(r) == IF r.cells # <<>> THEN ParseInt(r.cells[1]) ELSE PrimitiveSum(r.gates)

\* the warning list holds a LARGE_CIRCUIT_WARNING
WarnsLarge == \E k \in DOMAIN warnings : StartsWith(warnings[k], "LARGE_CIRCUIT_WARNING")

\* C19: the returned gate count is the N of a "Number of cells: N" line when one
\* is present and otherwise the sum of the per-primitive counts found, and a
\* LARGE_CIRCUIT_WARNING is in the warning list if and only if that count is
\* strictly greater than 60000.
C19_CountAndLargeWarning ==
    Analyzed =>
        /\ gate_count = ReportedCount(report)
        /\ WarnsLarge <=> gate_count > 60000

\* with no "Number of cells" line, three primitive counts have summed to 60001
C19_Witness ==
    /\ Analyzed
    /\ report.cells = <<>>
    /\ Len(report.gates) = 3
    /\ gate_count = 60001
    /\ warnings = <<"LARGE_CIRCUIT_WARNING: Circuit has 60001 gates (>60,000)">>

\* where the name of a header that starts a text ends
NameEnd(s) == RunEnd(s, 8, WordCh)

\* where the word "module" starts in a text
Keywords(s) == {k \in 1..Len(s) : OccursAt(s, "module", k) /\ Ch(s, k - 1) \notin WordCh}

\* the text is one header of the form "module NAME (" and what follows it
PlainHeader(s) ==
    /\ StartsWith(s, "module ")
    /\ NameEnd(s) > 8
    /\ OccursAt(s, " (", NameEnd(s))
    /\ Cardinality(Keywords(s)) = 1

\* the text is one header of the form "module NAME #(<params>) (" and what
\* follows it
ParamHeader(s) ==
    /\ StartsWith(s, "module ")
    /\ NameEnd(s) > 8
    /\ OccursAt(s, " #(", NameEnd(s))
    /\ \E k \in (NameEnd(s) + 3)..Len(s) : OccursAt(s, ") (", k)
    /\ Cardinality(Keywords(s)) = 1

\* the text with _IIII behind the name and every other character as it was
Suffixed(s, id) == Sub(s, 1, NameEnd(s) - 1) \o "_" \o ZeroPad(FormatInt(id), 4) \o From(s, NameEnd(s))

\* a call with an instance number of at most four digits has returned
Renamed == rpc = "returned" /\ instance_id \in 0..9999

\* the half of C20 about headers with no parameter list
PlainHeaderKept ==
    (Renamed /\ PlainHeader(verilog_code)) => renamed = Suffixed(verilog_code, instance_id)

\* C20 as stated: add_instance_id_to_module_name appends _IIII, the instance
\* number padded with zeros to four digits, to the module name and keeps the
\* rest of the header: "module NAME (" becomes "module NAME_IIII (", and
\* "module NAME #(<params>) (" becomes "module NAME_IIII #(<params>) (" with the
\* text of the parameter list kept character for character.
C20_HeaderKept ==
    (Renamed /\ (PlainHeader(verilog_code) \/ ParamHeader(verilog_code)))
        => renamed = Suffixed(verilog_code, instance_id)

\* the header with a parameter list of test_add_instance_id_to_module_name
\* comes back with a blank between "#" and the list
C20_Witness ==
    /\ rpc = "returned"
    /\ verilog_code = "module test_module #(parameter WIDTH = 8) (input clk);"
    /\ instance_id = 123
    /\ ParamHeader(verilog_code)
    /\ renamed = "module test_module_0123 # (parameter WIDTH = 8) (input clk);"

\* the hexadecimal digits of a natural number
RECURSIVE HexStr(_)
HexStr(n) ==
    IF n < 16 THEN Sub("0123456789ABCDEF", n + 1, n + 1)
    ELSE HexStr(n \div 16) \o Sub("0123456789ABCDEF", (n % 16) + 1, (n % 16) + 1)

\* v is a sized hex literal W'hHEX
SizedHex(v) ==
    LET w == RunEnd(v, 1, Digits)
    IN  /\ w > 1
        /\ OccursAt(v, "'h", w)
        /\ w + 2 <= Len(v)
        /\ \A k \in (w + 2)..Len(v) : Ch(v, k) \in HexValCh

\* the parameter the loop of inject_parameters is at
Turn == all_params[injected + 1]

\* the first declaration of the parameter of this turn, as a match, or <<>>
Declared == SearchFrom(ParameterPattern(Turn.name), host_circuit, 1)

\* the value the first declaration gives the parameter
DeclaredValue == Strip(GroupText(host_circuit, Declared, <<8, 8>>))

\* the text with the first declaration of the parameter replaced by one with
\* the value v
Redeclared(v) ==
    Sub(host_circuit, 1, Declared[1] - 1) \o "parameter " \o Turn.name \o " = " \o v
        \o From(host_circuit, Declared[Len(Declared)])

\* a turn of the loop, with no parameter configs, for an int parameter the
\* text declares
PlainTurn ==
    /\ ipc = "loop"
    /\ injected < Len(all_params)
    /\ injected' = injected + 1
    /\ param_configs = <<>>
    /\ Turn.value.int
    /\ Turn.value.n >= 0
    /\ Declared # <<>>

\* the half of C21 about parameters not declared as a sized hex literal
DecimalInjected ==
    [][(PlainTurn /\ ~SizedHex(DeclaredValue)) => host_circuit' = Redeclared(Str(Turn.value.n))]_vars

\* C21 as stated: inject_parameters with no parameter configs replaces the
\* first declaration of each named parameter with its new value, a plain
\* integer parameter written as decimal and a parameter declared as a sized
\* hex literal written as a sized hex literal of the same width.
C21_InjectedAsDeclared ==
    [][PlainTurn =>
          host_circuit' =
              IF SizedHex(DeclaredValue)
              THEN Redeclared(Sub(DeclaredValue, 1, RunEnd(DeclaredValue, 1, Digits) - 1)
                                  \o "'h" \o HexStr(Turn.value.n))
              ELSE Redeclared(Str(Turn.value.n))]_vars

\* the call of test_inject_parameters has returned PATTERN, declared as
\* 32'hDEADBEEF and given 0x12345678, as a decimal number
C21_Witness ==
    /\ ipc = "returned"
    /\ param_configs = <<>>
    /\ params = [struct |-> <<Param("DATA_WIDTH", IntValue(32)),
                               Param("PATTERN", IntValue(305419896))>>,
                  crypto |-> <<>>]
    /\ host_circuit = "module test #(\n  parameter DATA_WIDTH = 32,\n  parameter PATTERN = 305419896\n) (input clk);\nendmodule\n"

\* the least-significant w bits of b, or b padded on the left with zeros to w
LowBits(b, w) ==
    IF Len(b) > w THEN Sub(b, Len(b) - w + 1, Len(b)) ELSE Zeros(w - Len(b)) \o b

\* W'b and exactly W digits, the expansion cut or padded to them
WidthDigits ==
    /\ result = "assign n = " \o FormatInt(design.w) \o "'b" \o EmittedBits \o ";"
    /\ Len(EmittedBits) = design.w
    /\ NoWildcard(design.hex) => EmittedBits = LowBits(Expansion(design.hex), design.w)

\* C22 for the widths of at least one
PositiveWidthDigits == (Finished /\ design.fam = "hex" /\ design.w >= 1) => WidthDigits

\* C22 as stated: for every sized hex literal W'hHEX the normalizer emits W'b
\* followed by exactly W binary digits, the expansion of four bits a digit cut
\* from the left to its least-significant W bits when it is longer and padded
\* on the left with zeros when it is shorter, for every width W, 0 included.
C22_ExactlyWidthDigits == (Finished /\ design.fam = "hex") => WidthDigits

\* a literal of width zero and two digits comes back with eight bits
C22_Witness ==
    /\ Finished
    /\ design.fam = "hex"
    /\ design.w = 0
    /\ design.hex = "A1"
    /\ result = "assign n = 0'b10100001;"

\* the lines of the assembled output, as line 419 splits them
Assembled == Split(Join(out, "\n"), "\n")

\* how many blank lines a sequence of lines begins with
LeadingBlanks(ls) ==
    Cardinality({k \in 1..Len(ls) : \A j \in 1..k : IsBlank(ls[j])})

\* how many of them the post-pass takes off
Taken(k) == IF k < 2 THEN k ELSE 2

\* C23: the post-pass strips at most two leading blank lines: when the
\* assembled output begins with k blank (empty or whitespace-only) lines, the
\* result is the assembled output without its first min(k, 2) lines, so it
\* begins with k - min(k, 2) blank lines and every later line is unchanged and
\* in the same order.
C23_AtMostTwoStripped ==
    Finished =>
        LET k == LeadingBlanks(Assembled)
            kept == SubSeq(Assembled, Taken(k) + 1, Len(Assembled))
        IN  /\ result = Join(kept, "\n")
            /\ stripped = Taken(k)
            /\ LeadingBlanks(kept) = k - Taken(k)

\* an output that began with three blank lines has come back with one
C23_Witness ==
    /\ Finished
    /\ LeadingBlanks(Assembled) = 3
    /\ Len(Assembled) > 3
    /\ stripped = 2
    /\ LeadingBlanks(Split(result, "\n")) = 1

\* the statement of emitted line k never balances its parentheses
NeverBalanced(k) == k \in Instances /\ StatementEnd(lines, meta[k].src) = 0

\* the lines from s to the end of the input, stripped and joined by blanks
JoinedToEnd(s) == Join([n \in 1..(Len(lines) - s + 1) |-> Strip(lines[s + n - 1])], " ")

\* C24: when the parenthesis balance of an instantiation never returns to zero
\* before the end of the input, the segmenter consumes every remaining line
\* and returns the index after the last line, no error is raised, and the
\* canonicalizer emits one line for the joined statement, the last line of its
\* output, and stops.
C24_ConsumesToEndOfInput ==
    /\ (pc = "scan" /\ \E k \in DOMAIN meta : NeverBalanced(k)) => i > Len(lines)
    /\ Finished =>
          \A k \in DOMAIN meta :
              NeverBalanced(k) =>
                  /\ meta[k].next = Len(lines) + 1
                  /\ meta[k].full = JoinedToEnd(meta[k].src)
                  /\ k = Len(meta)
                  /\ k \in Kept
                  /\ Len(ResultLines) = Len(meta) - stripped
                  /\ \A c \in 1..Len(ResultLines[k - stripped]) :
                        Ch(ResultLines[k - stripped], c) \notin LineBreaks

\* a cell that never closes its parentheses has taken the two lines after it
C24_Witness ==
    /\ Finished
    /\ design.body = <<"sub u7 (.A(a),">>
    /\ design.post = <<"defparam p = 1;", "wire n1;">>
    /\ NeverBalanced(Len(meta))
    /\ meta[Len(meta)].next = meta[Len(meta)].src + 3
    /\ ResultLines[Len(ResultLines)] = "sub u7 (.A(a), defparam p = 1; wire n1;"

\* the net of a pin a rendered design lists, and the empty net of one it does not
NetOrEmpty(pin) == IF pin \in Listed THEN NetOf(pin) ELSE ""

\* C25: a two-input primitive (and, or, nand, nor, xor, xnor) instantiated with
\* named pins but without a B pin is emitted in the two-pin form, four spaces,
\* the type, the instance name and the nets of Y and A, and no error is
\* reported; a pin Y or A that is missing is an empty net in its position, the
\* other pin does not move.
C25_TwoPinWithoutB ==
    /\ (design.fam = "pins" /\ design.ty \in {"and", "or", "nand", "nor", "xor", "xnor"})
           => pc # "raised"
    /\ (/\ Finished
        /\ design.fam = "pins"
        /\ design.ty \in {"and", "or", "nand", "nor", "xor", "xnor"}
        /\ Listed # {}
        /\ "B" \notin Listed) =>
           result = "    " \o design.ty \o " " \o design.inst \o "("
                    \o NetOrEmpty("Y") \o ", " \o NetOrEmpty("A") \o ");"

\* an xor with the pin A alone, on a line of its own, has been emitted
C25_Witness ==
    /\ Finished
    /\ design.ty = "xor"
    /\ design.pins = <<"A">>
    /\ design.wrap = "pins"
    /\ result = "    xor g2(, a);"

\* a positional net as the signal cleaner leaves it
CleanNet(net) ==
    CASE net = "y" -> "y" [] net = "a [0]" -> "a[0]" [] net = "b [ 1 ] [2]" -> "b[1][2]"

\* the line of a positional gate: the type, the instance name and the nets in
\* their order and number, each cleaned
PositionalLine ==
    "    " \o design.ty \o " " \o design.inst \o "("
        \o Join([k \in 1..Len(design.pins) |-> CleanNet(design.pins[k])], ", ") \o ");"

\* C26 as stated: a primitive gate instantiated with purely positional
\* connections is emitted as four spaces, the type, the instance name and, in
\* parentheses, the comma-separated arguments of the source in their order
\* and number, each passed through the signal cleaner, then ";".
C26_PositionalKept == (Finished /\ design.fam = "pos") => result = PositionalLine

\* C26, amended: the same for a gate whose joined statement has a ")" after
\* its first "("; a statement with none is emitted as the joined statement
\* with its whitespace collapsed, neither indented nor closed nor cleaned.
C26_PositionalKeptWhenClosed ==
    (Finished /\ design.fam = "pos") =>
        IF design.wrap = "open"
        THEN result = design.ty \o " " \o design.inst \o " (" \o Join(design.pins, ", ")
        ELSE result = PositionalLine

\* a nand of three nets, one a line, has been emitted with its nets cleaned
C26_Witness ==
    /\ Finished
    /\ design.fam = "pos"
    /\ design.ty = "nand"
    /\ design.wrap = "args"
    /\ design.pins = <<"y", "a [0]", "b [ 1 ] [2]">>
    /\ result = "    nand g5(y, a[0], b[1][2]);"

\* the keyword assign stands at k of a line: the word, not a part of a name
AssignAt(l, k) ==
    /\ OccursAt(l, "assign", k)
    /\ Ch(l, k - 1) \notin WordCh \cup {"\\", "$"}
    /\ Ch(l, k + 6) \notin WordCh

\* the numbers of the lines of the netlist that hold an assign statement, in
\* line order
RECURSIVE StatementLines(_, _)
StatementLines(ls, n) ==
    IF n > Len(ls) THEN <<>>
    ELSE (IF \E k \in 1..Len(ls[n]) : AssignAt(ls[n], k) THEN <<n>> ELSE <<>>)
             \o StatementLines(ls, n + 1)

\* the numbers of the lines of the netlist that hold the text "assign"
RECURSIVE HoldingLines(_, _)
HoldingLines(ls, n) ==
    IF n > Len(ls) THEN <<>>
    ELSE (IF FindFrom(ls[n], "assign", 1) # 0 THEN <<n>> ELSE <<>>) \o HoldingLines(ls, n + 1)

\* the warning list reports the lines at: one ASSIGN_WARNING entry stating how
\* many, a detail entry for each of the first three, a remainder entry if and
\* only if there are more than three; and no ASSIGN_WARNING for no line
ReportsAssigns(at) ==
    LET ls == SplitLines(netlist_content)
        n == Len(at)
        shown == IF n < 3 THEN n ELSE 3
        heads == {p \in DOMAIN warnings : StartsWith(warnings[p], "ASSIGN_WARNING")}
    IN  IF n = 0 THEN heads = {}
        ELSE /\ Cardinality(heads) = 1
             /\ \A p \in heads :
                   /\ warnings[p] \in
                          {"ASSIGN_WARNING: Circuit '" \o circuit_name \o "' has " \o FormatInt(n)
                               \o " assign statement(s) in netlist",
                           "ASSIGN_WARNING: " \o FormatInt(n) \o " assign statement(s) found in netlist"}
                   /\ Len(warnings) > p + shown
                   /\ \A j \in 1..shown :
                         warnings[p + j] = "  Line " \o FormatInt(at[j]) \o ": " \o Strip(ls[at[j]])
                   /\ StartsWith(warnings[p + shown + 1], "  ... and") <=> n > 3
                   /\ n > 3 => warnings[p + shown + 1] =
                                   "  ... and " \o FormatInt(n - 3) \o " more assign statements"

\* what holds of C27: the report is of the lines that hold the text "assign"
HoldingLinesReported ==
    Analyzed => ReportsAssigns(HoldingLines(SplitLines(netlist_content), 1))

\* C27 as stated: when the netlist has n >= 1 assign statements, one
\* ASSIGN_WARNING entry stating n is appended, then one detail entry (line
\* number and snippet) for each of the first min(n, 3) of them in line order,
\* then a remainder entry stating n - 3 if and only if n > 3; when the netlist
\* has no assign statement no ASSIGN_WARNING is appended.
C27_AssignStatementsReported ==
    Analyzed => ReportsAssigns(StatementLines(SplitLines(netlist_content), 1))

\* a netlist with no assign statement and a wire named unassigned has been
\* reported to hold one
C27_Witness ==
    /\ Analyzed
    /\ netlist_content = "wire unassigned;\nnand g1(y, unassigned, b);\n"
    /\ StatementLines(SplitLines(netlist_content), 1) = <<>>
    /\ Len(warnings) >= 3
    /\ \E p \in DOMAIN warnings :
          /\ p + 2 \in DOMAIN warnings
          /\ warnings[p] = "ASSIGN_WARNING: Circuit 'top' has 2 assign statement(s) in netlist"
          /\ warnings[p + 1] = "  Line 1: wire unassigned;"
          /\ warnings[p + 2] = "  Line 2: nand g1(y, unassigned, b);"

\* the summary holds every entry of a log
Lists(log) == \A k \in DOMAIN log : \E n \in DOMAIN printed : printed[n] = "  " \o log[k]

\* the summary has been printed and lists every failure and every warning
SummaryPrinted ==
    /\ printed # <<>>
    /\ Lists(errors)
    /\ Lists(warnings_log)
    /\ Lists(large_circuits)

\* what holds of C28: a call that returns has printed the summary
ReturnedWithSummary == (ppc = "returned" /\ verilog_files # <<>>) => SummaryPrinted

\* C28 as stated, for a batch of at least one file: prep_data ends with a summary listing every recorded failure
\* and warning, raises no process-level error when at least one file of the
\* batch succeeded, and signals a process-level error when every file of the
\* batch failed.
C28_SummaryAndExitStatus ==
    (Ended /\ verilog_files # <<>>) =>
        /\ SummaryPrinted
        /\ Successful # {} => ppc = "returned"
        /\ Successful = {} => ppc = "raised"

\* a batch of two files whose syntheses both failed has returned normally
C28_Witness ==
    /\ ppc = "returned"
    /\ Len(verilog_files) = 2
    /\ \A k \in DOMAIN verilog_files :
          verilog_files[k] \in DOMAIN outcome /\ outcome[verilog_files[k]] = "failed"
    /\ Successful = {}
    /\ Len(errors) = 2
    /\ printed[1] = "Synthesis completed: 0/2 files successful"

(***************************************************************************)
(* The main loop of the canonicalizer: syn.py 376-415.                      *)
(***************************************************************************)

\* the emitted lines whose source lines include line k
Covering(k) == {n \in DOMAIN meta : meta[n].src <= k /\ k < meta[n].next}

\* line k takes the branch of lines 394-396
DroppedLine(k) ==
    /\ Strip(lines[k]) # ""
    /\ ~IsDeclarative(Strip(lines[k]))
    /\ IsDropped(Strip(lines[k]))

\* emitted line n is one source line, appended as it is
PassedThrough(n) ==
    /\ meta[n].kind \in {"blank", "decl", "other"}
    /\ meta[n].next = meta[n].src + 1
    /\ out[n] = lines[meta[n].src]

\* emitted line n is one instantiation statement: the source lines from src up
\* to next, stripped and joined by blanks
AbsorbedInto(n) ==
    /\ meta[n].kind \in {"prim", "dff", "cell"}
    /\ meta[n].next > meta[n].src
    /\ meta[n].full =
           Join([k \in 1..(meta[n].next - meta[n].src) |-> Strip(lines[meta[n].src + k - 1])], " ")

\* line k went exactly one way
ConsumedOnce(k) ==
    \/ /\ Cardinality(Covering(k)) = 1
       /\ \A n \in Covering(k) : PassedThrough(n) \/ AbsorbedInto(n)
    \/ /\ Covering(k) = {}
       /\ DroppedLine(k)

\* all lines before the index are consumed once, and no more lines are emitted
\* than are consumed
EachLineOnce ==
    pc \in {"scan", "done"} =>
        /\ i <= Len(lines) + 1
        /\ Len(meta) = Len(out)
        /\ \A k \in 1..(i - 1) : ConsumedOnce(k)
        /\ Len(out) <= i - 1
        /\ Len(lines) <= Len(SplitLines(input))
        /\ pc = "done" => i = Len(lines) + 1

\* an iteration of the loop moves the index forward, at most to the end
IndexIncreases == Scanning => (i' > i /\ i' <= Len(lines) + 1 /\ lines' = lines)

\* C29: the line loop always terminates and consumes every input line exactly
\* once: every iteration strictly increases the line index, to at most the
\* number of lines, so each line is passed through, dropped, or absorbed into
\* exactly one instantiation statement, and the output never has more lines
\* than the input.
C29_LoopConsumesEachLineOnce ==
    /\ []EachLineOnce
    /\ [][IndexIncreases]_vars
    /\ (pc = "scan") ~> (pc = "done")

\* a finished run with a line dropped, a statement of several lines and a
\* declaration passed through: fewer lines out than in
C29_Witness ==
    /\ Finished
    /\ \E k \in 1..Len(lines) : Covering(k) = {} /\ DroppedLine(k)
    /\ \E n \in DOMAIN meta : AbsorbedInto(n) /\ meta[n].next > meta[n].src + 1
    /\ \E n \in DOMAIN meta : PassedThrough(n) /\ meta[n].kind = "decl"
    /\ Len(out) < Len(lines)

(***************************************************************************)
(* The label files of prep_data: syn.py 517-536 and 581-589.                *)
(***************************************************************************)

\* one decimal digit or more
NumericType(t) == Len(t) > 0 /\ \A k \in 1..Len(t) : Ch(t, k) \in Digits

\* the type a trojaned label names: what stands between "Trojan" and the end
\* of the second line
TypeNamed(label) == Sub(label, 16, Len(label) - 1)

\* two lines, TROJANED and Trojan followed by a type
TrojanedLabel(label) ==
    /\ StartsWith(label, "TROJANED\nTrojan")
    /\ Ch(label, Len(label)) = "\n"
    /\ FindFrom(TypeNamed(label), "\n", 1) = 0

\* every label is the line NO_TROJAN for a clean file and a two-line trojaned
\* label for a trojaned one, whose type is numeric or the word None
LabelsAsWritten ==
    \A n \in DOMAIN labels :
        IF Classify(netlists[n]) = "clean" THEN labels[n] = "NO_TROJAN\n"
        ELSE /\ TrojanedLabel(labels[n])
             /\ NumericType(TypeNamed(labels[n])) \/ TypeNamed(labels[n]) = "None"

\* C30 as stated: every label file written is well formed, NO_TROJAN for a
\* clean file and TROJANED followed by Trojan<digits> for a trojaned one; a
\* trojaned label is never written with a missing or non-numeric type.
C30_LabelsWellFormed ==
    \A n \in DOMAIN labels :
        IF Classify(netlists[n]) = "clean" THEN labels[n] = "NO_TROJAN\n"
        ELSE TrojanedLabel(labels[n]) /\ NumericType(TypeNamed(labels[n]))

\* a trojaned file whose source declares no module Trojan<digits>
C30_Witness ==
    /\ ppc = "returned"
    /\ DOMAIN labels = {7}
    /\ netlists[7] = "rtl/Sub/d_trojaned.V"
    /\ labels[7] = "TROJANED\nTrojanNone\n"


====
